---- MODULE Spec2Model ----
(***************************************************************************)
(* Verification model of offshore_detector: the geocoding resolver of      *)
(* web_research.py (rate limiter, lru_cache, tenacity retry, the           *)
(* sync/async bridge) and the confidence aggregation of analyzer.py and    *)
(* offshore_detector.py.                                                   *)
(***************************************************************************)
EXTENDS Integers, Sequences, FiniteSets, TLC

(***************************************************************************)
(* Bounds of the model.                                                    *)
(***************************************************************************)
\* concurrent callers of parallel_web_research
NumCallers == 2
\* distinct cache keys (normalized bank name, country code) the callers use
NumKeys == 3
\* lru_cache(maxsize=500), scaled down so that eviction happens
maxsize == 2
\* clock ticks per second
TicksPerSecond == 2

Callers == 1..NumCallers
Keys == 1..NumKeys

(***************************************************************************)
(* Program constants.                                                      *)
(***************************************************************************)
\* rate_limit('geocode', min_interval=1.0)
MinInterval == 1 * TicksPerSecond
\* @retry(stop=stop_after_attempt(2), ...)
StopAfterAttempt == 2

NoOwner == 0
NoEvent == [op |-> "none", key |-> 0, victims |-> {}, oldest |-> 0, lru |-> 0]
Pending == "pending"
\* {"geocoding": None, ...}: the absent geocode result
Absent == "none"
Found == "found"
Raised == "raise"

VARIABLES
    cache,        \* lru_cache of _geocode_bank_cached: <<[k, v]>>, least recently used first
    insertOrder,  \* history: the cached keys in the order they were inserted
    useOrder,     \* history: the cached keys in the order of their last insert or hit
    event,        \* history: what the latest step did to the cache, NoEvent if nothing
    elapsed,      \* time.time() - _last_request_time['geocode'], saturating at MinInterval
    gap,          \* history: elapsed at the latest stamp of _last_request_time['geocode']
    rateLock,     \* owner of _rate_limit_lock, or NoOwner
    timer,        \* per lookup: ticks left of the current time.sleep
    cpc,          \* per caller: position in parallel_web_research, "returned" or "raised" at its end
    wpc,          \* per caller: position of the thread that runs geocode_bank
    key,          \* per caller: the cache key of the lookup
    mode,         \* per caller: "sync" (no running loop) or "loop" (inside a running loop)
    attempt,      \* per caller: tenacity's attempt number
    outcome,      \* per caller: what geocode_bank ended with
    result,       \* per caller: the geocoding value parallel_web_research returns
    timedOut,     \* per caller: future.result(timeout=30) raised TimeoutError
    conf,         \* one call of calculate_confidence: its arguments and what it returned
    before,       \* history: the previous call's results and the signal added since
    swift,        \* one call of extract_country_from_swift: its argument and what it returned
    norm,         \* one call of normalize_text: its argument, its result, the result's result
    fm,           \* one call of fuzzy_match: its arguments, the candidates, what it returned
    pipeline,     \* analyze_transaction: the module that runs it, per caller the row's analysis
    prelim,       \* one call of run_preliminary_analysis: the row and the bundle it returned
    batch,        \* df.apply(analyze_transaction): the rows, the row in work, the results
    lookup,       \* geocode_bank's way to the cache: raw arguments of two calls, their keys
    jobs          \* the web front end: per job its status and paths, the files of the upload folder

vars == <<cache, insertOrder, useOrder, event, elapsed, gap, rateLock, timer, cpc, wpc,
          key, mode, attempt, outcome, result, timedOut, conf, before, swift, norm, fm,
          pipeline, prelim, batch, lookup, jobs>>

(***************************************************************************)
(* functools.lru_cache(maxsize) around _geocode_bank_cached.               *)
(***************************************************************************)
CacheKeys(cch) == {cch[i].k : i \in 1..Len(cch)}

CacheGet(cch, k) == (CHOOSE i \in 1..Len(cch) : cch[i].k = k)

Without(s, k) == SelectSeq(s, LAMBDA e : e # k)

WithoutKey(cch, k) == SelectSeq(cch, LAMBDA e : e.k # k)

\* mutant: every lookup is treated as a miss
CacheHit_never(cch, k) == FALSE

\* the wrapper finds the key in its dict
CacheHit(cch, k) == k \in CacheKeys(cch)

\* mutant: a hit leaves the order alone, so that eviction goes by insertion
CacheTouch_none(cch, k) == cch

\* a hit moves the entry to the most recently used end
CacheTouch(cch, k) == WithoutKey(cch, k) \o <<cch[CacheGet(cch, k)]>>

\* mutant: a full cache grows instead of evicting
CacheStore_noEvict(cch, k, v) ==
    IF k \in CacheKeys(cch) THEN cch ELSE Append(cch, [k |-> k, v |-> v])

\* the wrapper stores a returned value: nothing when the key was added during
\* the call, a new link when not full, else the oldest link is evicted first
CacheStore(cch, k, v) ==
    IF k \in CacheKeys(cch) THEN cch
    ELSE IF Len(cch) < maxsize THEN Append(cch, [k |-> k, v |-> v])
    ELSE Append(Tail(cch), [k |-> k, v |-> v])

\* history orders follow the cache: evicted keys leave, a new key joins last
Follow(order, cch, k) ==
    LET kept == SelectSeq(order, LAMBDA e : e \in CacheKeys(cch))
    IN  IF k \in CacheKeys(cch) /\ k \notin {order[i] : i \in 1..Len(order)}
        THEN Append(kept, k) ELSE kept

(***************************************************************************)
(* rate_limit: the sleep that brings the spacing up to min_interval.       *)
(***************************************************************************)
\* if elapsed < min_interval: time.sleep(min_interval - elapsed)
SleepFor(el) == IF el < MinInterval THEN MinInterval - el ELSE 0

\* mutant: the lock is taken without waiting for its owner
LockFree_always(owner) == TRUE

\* with _rate_limit_lock: a thread enters only while nobody holds the lock
LockFree(owner) == owner = NoOwner

(***************************************************************************)
(* The exception handlers of the two bridges.                              *)
(***************************************************************************)
\* mutant: the handler lets the exception through
run_with_new_loop_noExcept(out) ==
    IF out = Raised THEN [pc |-> "raised", geocoding |-> Pending]
    ELSE [pc |-> "returned", geocoding |-> out]

\* try: return asyncio.run(...) except Exception: return {"geocoding": None, ...}
run_with_new_loop(out) ==
    IF out = Raised THEN [pc |-> "returned", geocoding |-> Absent]
    ELSE [pc |-> "returned", geocoding |-> out]

\* try: return future.result(timeout=30) except Exception: return {"geocoding": None, ...}
run_in_thread(out) ==
    IF out = Raised THEN [pc |-> "returned", geocoding |-> Absent]
    ELSE [pc |-> "returned", geocoding |-> out]

(***************************************************************************)
(* Confidence aggregation.  Floats are fixed-point numbers: One is 1.0.    *)
(***************************************************************************)
\* longest dict_hits list
MaxHits == 2
\* longest match_details list
MaxDetails == 2

One == 60000
None == "None"

\* Python truthiness of an optional string
Truthy(x) == x \notin {None, ""}

Min(a, b) == IF a < b THEN a ELSE b

\* config.py field names: payer = 'Плательщик', payer_bank = 'Банк плательщика',
\* payer_bank_address = 'Адрес банка плательщика', residence_country =
\* 'Страна резидентства', city = 'Город', payee = 'Получатель', payee_bank =
\* 'Банк получателя', payee_bank_address = 'Адрес банка получателя',
\* payment_details = 'Детали платежа'
FIELD_WEIGHTS_INCOMING ==
    [f \in {"payer", "payer_bank", "payer_bank_address", "residence_country", "city"} |->
        CASE f = "payer" -> (3 * One) \div 10
          [] f = "city" -> One \div 10
          [] OTHER -> (2 * One) \div 10]

FIELD_WEIGHTS_OUTGOING ==
    [f \in {"payee", "payee_bank", "payee_bank_address", "residence_country", "city",
            "payment_details"} |->
        CASE f \in {"city", "payment_details"} -> One \div 10
          [] OTHER -> (2 * One) \div 10]

\* the fields the bounded inputs match on
InputFields == {"payer", "payer_bank", "residence_country", "city"}

\* the configured tables and a table of maximal weights
WeightTables ==
    {FIELD_WEIGHTS_INCOMING, FIELD_WEIGHTS_OUTGOING, [f \in InputFields |-> One]}

Similarities == {0, (8 * One) \div 10, (95 * One) \div 100, One}

SeqsUpTo(S, n) == UNION {[1..m -> S] : m \in 0..n}

RECURSIVE SumSeq(_)
SumSeq(q) == IF q = <<>> THEN 0 ELSE Head(q) + SumSeq(Tail(q))

\* sum(field_weights.get(field, 0.0) for field in matched_fields)
RECURSIVE SumWeights(_, _)
SumWeights(w, fs) ==
    IF fs = {} THEN 0
    ELSE LET f == CHOOSE x \in fs : TRUE
         IN  (IF f \in DOMAIN w THEN w[f] ELSE 0) + SumWeights(w, fs \ {f})

\* mutant: an empty match_details counts as a match at the threshold
QualityBonus_emptyAtThreshold(match_details) ==
    IF Len(match_details) > 0
    THEN (SumSeq(match_details) \div Len(match_details)) \div 10
    ELSE (8 * One) \div 100

\* sum(d['similarity'] for d in match_details) / len(match_details) * 0.1
QualityBonus(match_details) ==
    IF Len(match_details) > 0
    THEN (SumSeq(match_details) \div Len(match_details)) \div 10
    ELSE 0

\* analyzer.py
calculate_confidence(dict_hits, swift_country_match, matched_fields, match_details, field_weights) ==
    LET base == (IF Len(dict_hits) > 0 THEN (3 * One) \div 10 ELSE 0)
                + (IF Truthy(swift_country_match) THEN (2 * One) \div 10 ELSE 0)
        field_score == SumWeights(field_weights, matched_fields)
        fields == (Min(field_score, One) * 3) \div 10
        bonus == (IF Len(dict_hits) > 1 THEN One \div 20 ELSE 0)
                 + (IF Cardinality(matched_fields) > 2 THEN One \div 20 ELSE 0)
    IN  Min(base + fields + bonus + QualityBonus(match_details), One)

\* offshore_detector.py: the sum before min(confidence, 1.0)
legacy_sum(dict_hits, swift_country_match, matched_fields, match_details) ==
    (IF Len(dict_hits) > 0 THEN (4 * One) \div 10 ELSE 0)
    + (IF Truthy(swift_country_match) THEN (3 * One) \div 10 ELSE 0)
    + (IF "residence_country" \in matched_fields THEN (2 * One) \div 10 ELSE 0)
    + (IF matched_fields \cap {"payer_bank", "payee_bank"} # {} THEN One \div 10 ELSE 0)
    + (IF matched_fields \cap {"payer", "payee"} # {} THEN (15 * One) \div 100 ELSE 0)
    + QualityBonus(match_details)
    + (IF Len(dict_hits) > 1 THEN One \div 10 ELSE 0)
    + (IF Cardinality(matched_fields) > 2 THEN One \div 10 ELSE 0)

\* mutant: the final min(confidence, 1.0) is missing
calculate_confidence_legacy_unclamped(dict_hits, swift_country_match, matched_fields, match_details) ==
    legacy_sum(dict_hits, swift_country_match, matched_fields, match_details)

\* offshore_detector.py
calculate_confidence_legacy(dict_hits, swift_country_match, matched_fields, match_details) ==
    Min(legacy_sum(dict_hits, swift_country_match, matched_fields, match_details), One)

\* classify_scenario's return None
NoScenario == 0

\* row['direction']: the two the parser sets, another value, a missing one
Directions == {"incoming", "outgoing", "internal", None}

\* mutant: the fallback is tested before the direction
classify_scenario_fallbackFirst(direction, dict_hits, swift_country_match) ==
    IF Len(dict_hits) > 0 \/ Truthy(swift_country_match) THEN 3
    ELSE NoScenario

\* analyzer.py and offshore_detector.py (the same text)
classify_scenario(direction, dict_hits, swift_country_match) ==
    IF direction = "incoming" /\ (Len(dict_hits) > 0 \/ Truthy(swift_country_match)) THEN 1
    ELSE IF direction = "outgoing" /\ (Len(dict_hits) > 0 \/ Truthy(swift_country_match)) THEN 2
    ELSE IF Len(dict_hits) > 0 \/ Truthy(swift_country_match) THEN 3
    ELSE NoScenario

ConfIdle ==
    [direction |-> None, dict_hits |-> <<>>, swift_country_match |-> None,
     matched_fields |-> {}, match_details |-> <<>>,
     field_weights |-> FIELD_WEIGHTS_INCOMING,
     done |-> FALSE, out |-> 0, out_legacy |-> 0, scenario |-> NoScenario]

ConfInputs ==
    [direction : Directions,
     dict_hits : SeqsUpTo({"cayman islands", "cyprus"}, MaxHits),
     swift_country_match : {None, "cayman islands"},
     matched_fields : SUBSET InputFields,
     match_details : SeqsUpTo(Similarities, MaxDetails),
     field_weights : WeightTables,
     done : {FALSE}, out : {0}, out_legacy : {0}, scenario : {NoScenario}]

\* no earlier call to compare with
NoBefore == [signal |-> "none", out |-> 0, out_legacy |-> 0]

\* fuzzy_match reports a similarity of at least the threshold 0.8
MatchSimilarities == Similarities \ {0}

(***************************************************************************)
(* Python strings are sequences of one-character strings; a value that may *)
(* not be a string carries its type.                                       *)
(***************************************************************************)
Str(chars) == [type |-> "str", chars |-> chars]

\* None, and the float NaN pandas puts in an empty cell
NonStrings == {[type |-> "NoneType", chars |-> <<>>], [type |-> "float", chars |-> <<>>]}

\* \s of the re module
Whitespace == {" ", "\t"}

ascii_uppercase ==
    <<"A", "B", "C", "D", "E", "F", "G", "H", "I", "J", "K", "L", "M", "N",
      "O", "P", "Q", "R", "S", "T", "U", "V", "W", "X", "Y", "Z">>

ascii_lowercase ==
    <<"a", "b", "c", "d", "e", "f", "g", "h", "i", "j", "k", "l", "m", "n",
      "o", "p", "q", "r", "s", "t", "u", "v", "w", "x", "y", "z">>

UpperLetters == {ascii_uppercase[i] : i \in 1..26}
LowerLetters == {ascii_lowercase[i] : i \in 1..26}
Digits == {"0", "1", "2", "3", "4", "5", "6", "7", "8", "9"}

\* the lower-case Cyrillic letters of 'кипр', written as their code points:
\* word characters that lower() leaves as they are
CyrillicLower == {"u043a", "u0438", "u043f", "u0440"}

\* \w of the re module: letters, digits and the underscore
WordChars == UpperLetters \cup LowerLetters \cup Digits \cup {"_"} \cup CyrillicLower

LetterIndex(alphabet, ch) == CHOOSE i \in 1..26 : alphabet[i] = ch

\* str.strip()
RECURSIVE lstrip(_)
lstrip(s) == IF s # <<>> /\ Head(s) \in Whitespace THEN lstrip(Tail(s)) ELSE s

RECURSIVE rstrip(_)
rstrip(s) ==
    IF s # <<>> /\ s[Len(s)] \in Whitespace THEN rstrip(SubSeq(s, 1, Len(s) - 1)) ELSE s

strip(s) == rstrip(lstrip(s))

\* str.upper()
upper(s) ==
    [i \in 1..Len(s) |->
        IF s[i] \in LowerLetters THEN ascii_uppercase[LetterIndex(ascii_lowercase, s[i])]
        ELSE s[i]]

\* str.lower()
lower(s) ==
    [i \in 1..Len(s) |->
        IF s[i] \in UpperLetters THEN ascii_lowercase[LetterIndex(ascii_uppercase, s[i])]
        ELSE s[i]]

\* str.isalpha(): non-empty and letters only
isalpha(s) == s # <<>> /\ \A i \in 1..Len(s) : s[i] \in UpperLetters \cup LowerLetters

\* s[a:b] for 0 <= a <= b
Slice(s, a, b) == SubSeq(s, a + 1, Min(b, Len(s)))

(***************************************************************************)
(* fuzzy_matcher.py: normalize_text.                                       *)
(***************************************************************************)
\* re.sub(r'[^\w\s]', '', text)
RemoveNonWord(s) == SelectSeq(s, LAMBDA ch : ch \in WordChars \cup Whitespace)

\* re.sub(r'\s+', ' ', text)
RECURSIVE CollapseWhitespace(_)
CollapseWhitespace(s) ==
    IF s = <<>> THEN <<>>
    ELSE IF Head(s) \in Whitespace
         THEN <<" ">> \o CollapseWhitespace(lstrip(s))
         ELSE <<Head(s)>> \o CollapseWhitespace(Tail(s))

\* mutant: the whitespace runs are left as they are
normalize_text_noCollapse(text) ==
    IF text.type # "str" THEN <<>>
    ELSE strip(RemoveNonWord(lower(text.chars)))

normalize_text(text) ==
    IF text.type # "str" THEN <<>>
    ELSE strip(CollapseWhitespace(RemoveNonWord(lower(text.chars))))

\* longest argument of normalize_text
MaxTextLen == 4

\* an upper-case and a lower-case letter, a digit, the underscore, two
\* punctuation marks and two kinds of whitespace
NormChars == {"A", "b", "1", "_", ".", "-", " ", "\t"}

NormIdle == [text |-> Str(<<>>), done |-> FALSE, out |-> <<>>, again |-> <<>>]

NormInputs ==
    [text : NonStrings \cup {Str(c) : c \in SeqsUpTo(NormChars, MaxTextLen)},
     done : {FALSE}, out : {<<>>}, again : {<<>>}]

(***************************************************************************)
(* fuzzy_matcher.py and _legacy/fuzzy_matcher.py: fuzzy_match.  A          *)
(* similarity is a fixed-point number, One is 1.0.                         *)
(***************************************************************************)
STOPWORDS ==
    {<<"a", "n", "d">>,
     <<"t", "h", "e">>,
     <<"o", "f">>,
     <<"c", "o", "m", "p", "a", "n", "y">>,
     <<"c", "o">>,
     <<"l", "t", "d">>,
     <<"l", "i", "m", "i", "t", "e", "d">>,
     <<"b", "a", "n", "k">>,
     <<"t", "r", "u", "s", "t">>,
     <<"i", "n", "c">>,
     <<"c", "o", "r", "p">>,
     <<"s", "a", "i", "n", "t">>,
     <<"s", "t">>,
     <<"i", "s", "l", "a", "n", "d", "s">>,
     <<"i", "s", "l", "a", "n", "d">>,
     <<"l", "l", "c">>,
     <<"p", "l", "c">>,
     <<"s", "p", "a">>,
     <<"p", "t">>,
     <<"a">>,
     <<"a", "n">>,
     <<"h", "k">>,
     <<"u", "a", "e">>,
     <<"u", ".", "a", ".", "e">>,
     <<"u", "a">>,
     <<"u", "s">>,
     <<"u", "s", "a">>}

\* tokens shorter than this are dropped
MinTokenLen == 3
\* strings shorter than this are compared as a whole
ShortLen == 20
\* sorted_matches[:5]
TopN == 5

Max(a, b) == IF a > b THEN a ELSE b

Range(q) == {q[i] : i \in 1..Len(q)}

\* q[:n]
Take(q, n) == SubSeq(q, 1, Min(n, Len(q)))

\* str.split(): the maximal runs of non-whitespace characters
RECURSIVE split(_)
split(s) ==
    LET t == lstrip(s)
        n == IF \E i \in 1..Len(t) : t[i] \in Whitespace
             THEN CHOOSE i \in 1..Len(t) :
                      t[i] \in Whitespace /\ \A j \in 1..(i - 1) : t[j] \notin Whitespace
             ELSE Len(t) + 1
    IN  IF t = <<>> THEN <<>>
        ELSE <<SubSeq(t, 1, n - 1)>> \o split(SubSeq(t, n, Len(t)))

\* [t for t in normalized.split() if t not in STOPWORDS and len(t) >= 3]
significant_tokens(normalized) ==
    SelectSeq(split(normalized), LAMBDA t : t \notin STOPWORDS /\ Len(t) >= MinTokenLen)

\* target in text
Contains(text, target) ==
    \E i \in 0..(Len(text) - Len(target)) : SubSeq(text, i + 1, i + Len(target)) = target

\* Levenshtein.distance: one row of the dynamic programme after the other
RECURSIVE LevRow(_, _, _, _)
LevRow(prev, ch, t, acc) ==
    IF Len(acc) = Len(t) + 1 THEN acc
    ELSE LET j == Len(acc)
             sub == prev[j] + (IF t[j] = ch THEN 0 ELSE 1)
         IN  CHOOSE row \in {LevRow(prev, ch, t, longer) :
                             longer \in {Append(acc, Min(Min(prev[j + 1] + 1, acc[j] + 1),
                                                         sub))}} : TRUE

\* the rows of the distance table, one per character of s; each row is a
\* value before the next is computed from it
RECURSIVE LevRows(_, _, _)
LevRows(row, s, t) ==
    IF s = <<>> THEN row[Len(t) + 1]
    ELSE CHOOSE d \in {LevRows(next, rest, t) :
                       next \in {LevRow(row, Head(s), t, <<row[1] + 1>>)},
                       rest \in {Tail(s)}} : TRUE

distance(s, t) == LevRows([j \in 1..(Len(t) + 1) |-> j - 1], s, t)

\* 1 - (lev_dist / max_len)
similarity(s, t) == One - (distance(s, t) * One) \div Max(Len(s), Len(t))

RECURSIVE SumOver(_, _)
SumOver(f, S) ==
    IF S = {} THEN 0 ELSE LET x == CHOOSE y \in S : TRUE IN f[x] + SumOver(f, S \ {x})

Candidate(target, sim, strategy) ==
    [match |-> target, similarity |-> sim, strategy |-> strategy]

\* _legacy: target in text and len(target) >= 3
try_exact_match(text, target, original_target) ==
    IF Contains(text, target) /\ Len(target) >= MinTokenLen
    THEN <<Candidate(original_target, One, "exact")>> ELSE <<>>

\* mutant: the token strategy accepts one hit for a multi-word target
try_token_match_oneHit(text_tokens, target_tokens, original_target) ==
    IF target_tokens # <<>> /\ Range(target_tokens) \cap Range(text_tokens) # {}
    THEN <<Candidate(original_target, (95 * One) \div 100, "token")>> ELSE <<>>

\* 1 hit for a single-word target, 2 hits for a multi-word one
try_token_match(text_tokens, target_tokens, original_target) ==
    LET hits == Cardinality(Range(target_tokens) \cap Range(text_tokens))
    IN  IF /\ target_tokens # <<>>
           /\ \/ Len(target_tokens) = 1 /\ hits >= 1
              \/ Len(target_tokens) > 1 /\ hits >= 2
        THEN <<Candidate(original_target, (95 * One) \div 100, "token")>> ELSE <<>>

\* the whole strings when one is short, else the best similarity per target token
try_fuzzy_match(text, target, text_tokens, target_tokens, original_target, threshold) ==
    IF Len(text) < ShortLen \/ Len(target) < ShortLen
    THEN LET sim == similarity(text, target)
         IN  IF sim >= threshold THEN <<Candidate(original_target, sim, "fuzzy")>> ELSE <<>>
    ELSE IF text_tokens = <<>> \/ target_tokens = <<>> THEN <<>>
    ELSE LET tar == Range(target_tokens)
             best == [tar_tok \in tar |->
                         LET sims == {similarity(txt_tok, tar_tok) : txt_tok \in Range(text_tokens)}
                         IN  CHOOSE b \in sims : \A x \in sims : x <= b]
             strong_hits == Cardinality({tar_tok \in tar : best[tar_tok] >= threshold})
         IN  IF \/ Len(target_tokens) = 1 /\ strong_hits >= 1
                \/ Len(target_tokens) > 1 /\ strong_hits >= 2
             THEN <<Candidate(original_target, SumOver(best, tar) \div Cardinality(tar),
                              "tokenwise")>>
             ELSE <<>>

FirstOf(a, b, c) == IF a # <<>> THEN a ELSE IF b # <<>> THEN b ELSE c

\* mutant: a target whose normalized form is empty is not skipped
match_target_noSkip(normalized_text, target, threshold) ==
    LET normalized_target == normalize_text(Str(target))
        target_tokens == significant_tokens(normalized_target)
        text_tokens == significant_tokens(normalized_text)
    IN  IF Contains(normalized_text, normalized_target) /\ Len(target_tokens) >= 1
        THEN <<Candidate(target, One, "exact")>>
        ELSE FirstOf(try_token_match(text_tokens, target_tokens, target), <<>>,
                     try_fuzzy_match(normalized_text, normalized_target, text_tokens,
                                     target_tokens, target, threshold))

\* fuzzy_matcher.py, the body of the loop over the targets: the candidate of
\* one target, or none
match_target(normalized_text, target, threshold) ==
    LET normalized_target == normalize_text(Str(target))
        target_tokens == significant_tokens(normalized_target)
        text_tokens == significant_tokens(normalized_text)
    IN  IF normalized_target = <<>> THEN <<>>
        ELSE IF Contains(normalized_text, normalized_target) /\ Len(target_tokens) >= 1
             THEN <<Candidate(target, One, "exact")>>
        ELSE FirstOf(try_token_match(text_tokens, target_tokens, target), <<>>,
                     try_fuzzy_match(normalized_text, normalized_target, text_tokens,
                                     target_tokens, target, threshold))

\* _legacy/fuzzy_matcher.py: _try_exact_match or _try_token_match or _try_fuzzy_match
match_target_legacy(normalized_text, target, threshold) ==
    LET normalized_target == normalize_text(Str(target))
        target_tokens == significant_tokens(normalized_target)
        text_tokens == significant_tokens(normalized_text)
    IN  IF normalized_target = <<>> THEN <<>>
        ELSE FirstOf(try_exact_match(normalized_text, normalized_target, target),
                     try_token_match(text_tokens, target_tokens, target),
                     try_fuzzy_match(normalized_text, normalized_target, text_tokens,
                                     target_tokens, target, threshold))

\* for target in targets: ... matches.append(...)
RECURSIVE scan_targets(_, _, _, _)
scan_targets(legacy, normalized_text, targets, threshold) ==
    IF targets = <<>> \/ normalized_text = <<>> THEN <<>>
    ELSE (IF legacy THEN match_target_legacy(normalized_text, Head(targets), threshold)
          ELSE match_target(normalized_text, Head(targets), threshold))
         \o scan_targets(legacy, normalized_text, Tail(targets), threshold)

\* {m['match']: m for m in matches}.values(): a key stays where it first
\* appeared and holds the last candidate of its target
RECURSIVE unique_matches(_, _)
unique_matches(matches, i) ==
    IF i > Len(matches) THEN <<>>
    ELSE LET same == {j \in 1..Len(matches) : matches[j].match = matches[i].match}
             last == CHOOSE j \in same : \A k \in same : k <= j
         IN  (IF \A j \in same : j >= i THEN <<matches[last]>> ELSE <<>>)
             \o unique_matches(matches, i + 1)

\* sorted(..., key=similarity, reverse=True): stable, equal candidates keep their order
RECURSIVE InsertSorted(_, _)
InsertSorted(m, q) ==
    IF q = <<>> \/ q[1].similarity <= m.similarity THEN <<m>> \o q
    ELSE <<q[1]>> \o InsertSorted(m, Tail(q))

RECURSIVE sorted(_)
sorted(q) == IF q = <<>> THEN <<>> ELSE InsertSorted(Head(q), sorted(Tail(q)))

\* mutant: the candidates are sorted but neither made unique nor cut
top_matches_sortOnly(matches) == sorted(matches)

\* sorted_matches[:5] of the unique matches
top_matches(matches) ==
    LET sorted_matches == sorted(unique_matches(matches, 1))
    IN  Take(sorted_matches, TopN)

\* one call: the candidates appended while scanning, and the returned list
fuzzy_match_run(legacy, text, targets, threshold) ==
    LET matches == scan_targets(legacy, normalize_text(text), targets, threshold)
    IN  [matches |-> matches, out |-> top_matches(matches)]

fuzzy_match(text, targets, threshold) ==
    fuzzy_match_run(FALSE, text, targets, threshold).out

fuzzy_match_legacy(text, targets, threshold) ==
    fuzzy_match_run(TRUE, text, targets, threshold).out

\* jurisdiction names of config.py, a name that is only a stopword, in the
\* order of the targets list
TargetUniverse ==
  <<
    <<"c", "a", "y", "m", "a", "n", " ", "i", "s", "l", "a", "n", "d", "s">>,
    <<"c", "y", "p", "r", "u", "s">>,
    <<"b", "e", "r", "m", "u", "d", "a">>,
    <<"b", "r", "i", "t", "i", "s", "h", " ", "v", "i", "r", "g", "i", "n", " ", "i",
      "s", "l", "a", "n", "d", "s">>,
    <<"s", "a", "i", "n", "t", " ", "k", "i", "t", "t", "s", " ", "a", "n", "d", " ",
      "n", "e", "v", "i", "s">>,
    <<"n", "e", "v", "i", "s">>,
    <<"a", "n", "t", "i", "g", "u", "a", " ", "a", "n", "d", " ", "b", "a", "r", "b",
      "u", "d", "a">>,
    <<"b", "a", "n", "k">>
  >>

NumTargets == Len(TargetUniverse)

\* a target whose normalized form is empty
EmptyTarget == <<"-", "-">>

\* the targets at the positions S, in the order of the universe
RECURSIVE Pick(_, _)
Pick(S, i) ==
    IF i > NumTargets THEN <<>>
    ELSE (IF i \in S THEN <<TargetUniverse[i]>> ELSE <<>>) \o Pick(S, i + 1)

Reverse(q) == [i \in 1..Len(q) |-> q[Len(q) + 1 - i]]

\* most targets a short targets list selects
MaxFewTargets == 2

\* short selections, and long ones that leave out at most one target
Selections ==
    {S \in SUBSET (1..NumTargets) :
        Cardinality(S) <= MaxFewTargets \/ Cardinality(S) >= NumTargets - 1}

\* every selection of targets, in order, and in reverse order with an empty
\* target and a repeated target added
TargetLists ==
    {Pick(S, 1) : S \in Selections}
    \cup {Reverse(Pick(S, 1)) \o <<EmptyTarget>> \o Take(Pick(S, 1), 1) : S \in Selections}

TextStrings ==
  {
    <<"a", "n", "t", "i", "g", "u", "a", " ", "a", "n", "d", " ", "b", "a", "r", "r",
      "b", "u", "d", "a">>,
    <<"P", "a", "y", "m", "e", "n", "t", " ", "t", "o", " ", "C", "a", "y", "m", "a",
      "n", " ", "I", "s", "l", "a", "n", "d", "s", " ", "B", "r", "a", "n", "c", "h",
      " ", "L", "t", "d">>,
    <<"c", "a", "y", "m", "a", "n", " ", "b", "a", "n", "k">>,
    <<"c", "y", "p", "r", "s">>,
    <<"b", "e", "r", "m", "u", "d", "a", " ", "b", "a", "n", "k">>,
    <<"p", "a", "y", "m", "e", "n", "t", " ", "t", "o", " ", "t", "h", "e", " ", "b",
      "a", "n", "k">>,
    <<"b", "r", "i", "t", "s", "h", " ", "v", "i", "r", "g", "i", "n", " ", "i", "s",
      "l", "a", "n", "d", " ", "c", "o", " ", "l", "t", "d">>,
    <<"v", "i", "r", "g", "i", "n", " ", "b", "r", "i", "t", "i", "s", "h">>,
    <<"b", "e", "r", "m", "u", "d", "a", " ", "c", "y", "p", "r", "u", "s", " ", "c",
      "a", "y", "m", "a", "n", " ", "b", "r", "i", "t", "i", "s", "h", " ", "v", "i",
      "r", "g", "i", "n", " ", "k", "i", "t", "t", "s", " ", "n", "e", "v", "i", "s",
      " ", "b", "a", "n", "k">>,
    <<"C", "y", "p", "r", "u", "s", ",", " ", " ", "B", "e", "r", "m", "u", "d", "a",
      ".">>,
    <<"t", "r", "a", "n", "s", "f", "e", "r", " ", "u", "n", "i", "t", "e", "d", " ",
      "t", "r", "a", "d", "i", "n", "g", " ", "c", "o", "m", "p", "a", "n", "y">>,
    <<"b", "a", "n", "k">>,
    <<"-", " ", ".">>
  }

\* the default 0.8, and 0.0, which accepts every comparison of whole strings
Thresholds == {0, (8 * One) \div 10}

FuzzyIdle ==
    [text |-> Str(<<>>), targets |-> <<>>, threshold |-> (8 * One) \div 10, done |-> FALSE,
     matches |-> <<>>, out |-> <<>>, matches_legacy |-> <<>>, out_legacy |-> <<>>]

FuzzyInputs ==
    [text : NonStrings \cup {Str(<<>>)} \cup {Str(t) : t \in TextStrings},
     targets : TargetLists, threshold : Thresholds, done : {FALSE},
     matches : {<<>>}, out : {<<>>}, matches_legacy : {<<>>}, out_legacy : {<<>>}]

(***************************************************************************)
(* extract_country_from_swift.                                             *)
(***************************************************************************)
\* config.py, the entries the bounded inputs can reach: two offshore codes
\* and 'US', which the map has although it is not in OFFSHORE_JURISDICTIONS
SWIFT_COUNTRY_MAP ==
    [cc \in {<<"K", "Y">>, <<"U", "S">>} |->
        IF cc = <<"K", "Y">> THEN "cayman islands" ELSE "united states"]

\* OFFSHORE_JURISDICTIONS['en'], the names the bounded inputs can reach
OFFSHORE_JURISDICTIONS_en == {"cayman islands", "cyprus", "bermuda"}

\* SWIFT_COUNTRY_MAP.get(country_code)
MapGet(country_code) ==
    IF country_code \in DOMAIN SWIFT_COUNTRY_MAP THEN SWIFT_COUNTRY_MAP[country_code] ELSE None

\* analyzer.py
extract_country_from_swift(swift_code) ==
    IF swift_code.type # "str" \/ swift_code.chars = <<>> THEN None
    ELSE LET swift_clean == upper(strip(swift_code.chars))
             country_code == Slice(swift_clean, 4, 6)
             country_name == MapGet(country_code)
         IN  IF Len(swift_clean) \notin {8, 11} THEN None
             ELSE IF ~isalpha(country_code) THEN None
             ELSE IF Truthy(country_name) /\ country_name \in OFFSHORE_JURISDICTIONS_en
                  THEN country_name
                  ELSE None

\* offshore_detector.py
extract_country_from_swift_legacy(swift_code) ==
    IF swift_code.type = "str" /\ Len(swift_code.chars) >= 6
    THEN LET country_code == upper(Slice(swift_code.chars, 4, 6))
             country_name == MapGet(country_code)
         IN  IF country_name \in OFFSHORE_JURISDICTIONS_en THEN country_name ELSE None
    ELSE None

\* longest run of spaces around a SWIFT code
MaxPad == 1

Pads == {[i \in 1..n |-> " "] : n \in 0..MaxPad}

\* the characters a code's country positions are drawn from
CodeChars == {"K", "Y", "y", "U", "S", "1"}

\* what follows the country code: codes of 6 to 12 characters in all
CodeTails ==
    {<<>>, <<"K">>, <<"K", "Y">>, <<"K", "Y", "X">>, <<"K", "Y", "X", "X", "X">>,
     <<"K", "Y", "X", "X", "X", "X">>}

SwiftCodes ==
    {l \o <<"B", "O", "T", "K", a, b>> \o t \o r :
        l \in Pads, a \in CodeChars, b \in CodeChars, t \in CodeTails, r \in Pads}

SwiftIdle == [code |-> Str(<<>>), done |-> FALSE, out |-> None, out_legacy |-> None]

SwiftInputs ==
    [code : NonStrings \cup {Str(<<>>)} \cup {Str(c) : c \in SwiftCodes},
     done : {FALSE}, out : {None}, out_legacy : {None}]

(***************************************************************************)
(* analyze_transaction, the signal pipeline of one row: the preliminary    *)
(* analysis, the geocoding research, the classification.                   *)
(***************************************************************************)
\* number of distinct bank names in the rows
NumBanks == 2

\* the cache keys of the rows' bank names
Banks == 1..NumBanks

\* the two modules that define analyze_transaction
Versions == {"analyzer", "offshore_detector"}

\* offshore_detector.py: if preliminary_analysis['confidence'] > 0.2
ResearchThreshold == (2 * One) \div 10

\* what run_preliminary_analysis found in a row: nothing, an offshore SWIFT
\* country, one dictionary hit in the field 'Город'
PrelimSignals ==
    [dict_hits : {<<>>}, swift_country_match : {None, "cayman islands"},
     matched_fields : {{}}, match_details : {<<>>}]
    \cup [dict_hits : {<<"cyprus">>}, swift_country_match : {None},
          matched_fields : {{"city"}}, match_details : {<<(8 * One) \div 10>>}]

\* run_preliminary_analysis(row)['confidence'] of an incoming row
run_preliminary_analysis(version, s) ==
    IF version = "analyzer"
    THEN calculate_confidence(s.dict_hits, s.swift_country_match, s.matched_fields,
                              s.match_details, FIELD_WEIGHTS_INCOMING)
    ELSE calculate_confidence_legacy(s.dict_hits, s.swift_country_match,
                                     s.matched_fields, s.match_details)

\* analyze_transaction calls parallel_web_research: analyzer.py for every
\* row, offshore_detector.py if the confidence is above the threshold
calls_web_research(version, confidence) ==
    version = "analyzer" \/ confidence > ResearchThreshold

\* no row is being analysed
RowIdle == [pc |-> "none", confidence |-> 0]

PipelineIdle == [version |-> "offshore_detector", row |-> [c \in Callers |-> RowIdle]]

(***************************************************************************)
(* run_preliminary_analysis: the dictionary scan of a row's fields, the    *)
(* SWIFT country, the confidence and the scenario.                         *)
(***************************************************************************)
\* OFFSHORE_JURISDICTIONS.items(): 'en' and 'ru', the names the rows can reach
OFFSHORE_JURISDICTIONS ==
  <<
    << <<"c", "y", "p", "r", "u", "s">>,
       <<"n", "e", "v", "i", "s">>,
       <<"s", "a", "i", "n", "t", " ", "k", "i", "t", "t", "s", " ", "a", "n", "d", " ",
         "n", "e", "v", "i", "s">> >>,
    << <<"u043a", "u0438", "u043f", "u0440">> >>
  >>

\* fuzzy_match(text, targets, threshold=0.8)
DefaultThreshold == (8 * One) \div 10

\* field_weights.items(): the fields in the order of the table
field_items(direction) ==
    IF direction = "incoming"
    THEN <<"payer", "payer_bank", "payer_bank_address", "residence_country", "city">>
    ELSE <<"payee", "payee_bank", "payee_bank_address", "residence_country", "city",
           "payment_details">>

\* dict_hits = [], matched_fields = set(), match_details = []
NothingFound == [dict_hits |-> <<>>, matched_fields |-> {}, match_details |-> <<>>]

\* for lang, jurisdictions in OFFSHORE_JURISDICTIONS.items(): the matches of
\* one field's text are added to what was found
RECURSIVE scan_jurisdictions(_, _, _, _)
scan_jurisdictions(text_to_check, field, lang, found) ==
    IF lang > Len(OFFSHORE_JURISDICTIONS) THEN found
    ELSE LET matches == fuzzy_match(text_to_check, OFFSHORE_JURISDICTIONS[lang],
                                    DefaultThreshold)
         IN  scan_jurisdictions(text_to_check, field, lang + 1,
                 IF matches # <<>>
                 THEN [dict_hits |-> found.dict_hits
                                     \o [i \in 1..Len(matches) |-> matches[i].match],
                       matched_fields |-> found.matched_fields \cup {field},
                       match_details |-> found.match_details \o matches]
                 ELSE found)

\* for field, weight in field_weights.items(): if field in row and
\* pd.notna(row[field])
RECURSIVE scan_fields(_, _, _)
scan_fields(row, fields, found) ==
    IF fields = <<>> THEN found
    ELSE LET field == Head(fields)
         IN  scan_fields(row, Tail(fields),
                 IF field \in DOMAIN row.values /\ row.values[field].type = "str"
                 THEN scan_jurisdictions(row.values[field], field, 1, found)
                 ELSE found)

\* mutant: the bundle's confidence is computed without the SWIFT match
preliminary_bundle_noSwift(row) ==
    LET found == scan_fields(row, field_items(row.direction), NothingFound)
        swift_country_match == extract_country_from_swift(row.swift)
    IN  [dict_hits |-> Range(found.dict_hits),
         swift_country_match |-> swift_country_match,
         confidence |-> calculate_confidence(found.dict_hits, None,
                            found.matched_fields,
                            [i \in 1..Len(found.match_details) |->
                                found.match_details[i].similarity],
                            IF row.direction = "incoming" THEN FIELD_WEIGHTS_INCOMING
                            ELSE FIELD_WEIGHTS_OUTGOING),
         scenario |-> classify_scenario(row.direction, found.dict_hits,
                                        swift_country_match),
         matched_fields |-> found.matched_fields,
         match_details |-> found.match_details]

\* analyzer.py run_preliminary_analysis: the returned dictionary, with
\* 'dict_hits': list(set(dict_hits)) as a set
preliminary_bundle(row) ==
    LET field_weights == IF row.direction = "incoming" THEN FIELD_WEIGHTS_INCOMING
                         ELSE FIELD_WEIGHTS_OUTGOING
        found == scan_fields(row, field_items(row.direction), NothingFound)
        swift_country_match == extract_country_from_swift(row.swift)
    IN  [dict_hits |-> Range(found.dict_hits),
         swift_country_match |-> swift_country_match,
         confidence |-> calculate_confidence(found.dict_hits, swift_country_match,
                            found.matched_fields,
                            [i \in 1..Len(found.match_details) |->
                                found.match_details[i].similarity],
                            field_weights),
         scenario |-> classify_scenario(row.direction, found.dict_hits,
                                        swift_country_match),
         matched_fields |-> found.matched_fields,
         match_details |-> found.match_details]

\* the dict_hits list of the row before list(set(...))
dict_hits_list(row) == scan_fields(row, field_items(row.direction), NothingFound).dict_hits

\* the columns of a row that hold text
RowFields == {"payer", "payee", "city"}

\* NaN
NaN == [type |-> "float", chars |-> <<>>]

\* a missing value, an exact name, a misspelt name, a name that is part of
\* another, a Russian name, a text without a name
FieldValues ==
    {NaN,
     Str(<<"C", "y", "p", "r", "u", "s">>),
     Str(<<"c", "y", "p", "r", "s">>),
     Str(<<"n", "e", "v", "i", "s">>),
     Str(<<"u043a", "u0438", "u043f", "u0440">>),
     Str(<<"a", "l", "p", "h", "a", " ", "l", "t", "d">>)}

\* no SWIFT code, a Cayman Islands code, a United States code
SwiftValues ==
    {NaN, Str(<<"B", "O", "T", "K", "K", "Y", "K", "X">>),
     Str(<<"B", "O", "T", "K", "U", "S", "3", "3">>)}

\* the rows of the filtered data frames
PrelimRows ==
    [direction : {"incoming", "outgoing"}, values : [RowFields -> FieldValues],
     swift : SwiftValues]

NoBundle ==
    [dict_hits |-> {}, swift_country_match |-> None, confidence |-> 0,
     scenario |-> NoScenario, matched_fields |-> {}, match_details |-> <<>>]

PrelimIdle ==
    [row |-> [direction |-> "incoming", values |-> [f \in RowFields |-> NaN], swift |-> NaN],
     done |-> FALSE, bundle |-> NoBundle]

PrelimInputs == [row : PrelimRows, done : {FALSE}, bundle : {NoBundle}]

(***************************************************************************)
(* df.apply(analyze_transaction, axis=1): the rows of a data frame, one    *)
(* after the other, each inside the try of analyze_transaction.            *)
(***************************************************************************)
\* most rows of a data frame
MaxRows == 2

\* the modules whose row analysis runs under df.apply
BatchModules == {"analyzer", "processor"}

\* preliminary_analysis has no 'web_results' entry
Unset == "unset"

\* a row with a dictionary hit and an offshore SWIFT code, a row without a
\* signal, a row without the 'direction' column (row['direction'] raises KeyError)
BatchRows ==
    {[direction |-> "incoming",
      values |-> [f \in RowFields |->
                     IF f = "payer" THEN Str(<<"C", "y", "p", "r", "u", "s">>) ELSE NaN],
      swift |-> Str(<<"B", "O", "T", "K", "K", "Y", "K", "X">>)],
     [direction |-> "outgoing", values |-> [f \in RowFields |-> NaN], swift |-> NaN],
     [direction |-> None, values |-> [f \in RowFields |-> NaN], swift |-> NaN]}

\* _create_error_classification(e) and the "ОШИБКА: ..." string of processor.py
ErrorResult == [kind |-> "error", bundle |-> NoBundle, geocoding |-> Unset, resolver |-> Unset]

\* mutant: the exception leaves analyze_transaction and the row has no result
on_exception_reraise(results) == results

\* except Exception as e: ... return _create_error_classification(e)
on_exception(results) == Append(results, ErrorResult)

BatchIdle ==
    [module |-> "analyzer", rows |-> <<>>, analysis |-> <<>>, i |-> 0, pc |-> "none",
     bundle |-> NoBundle, geocoding |-> Unset, resolver |-> Unset, results |-> <<>>]

\* run_preliminary_analysis is a function of the row alone: analysis holds
\* what it returns for each row of the frame that has its 'direction'
BatchInputs ==
    {[BatchIdle EXCEPT
         !.module = m, !.rows = rows, !.pc = "row",
         !.analysis = [k \in 1..Len(rows) |->
                          IF rows[k].direction = None THEN NoBundle
                          ELSE preliminary_bundle(rows[k])]] :
        m \in BatchModules, rows \in SeqsUpTo(BatchRows, MaxRows)}

(***************************************************************************)
(* web_research.py: geocode_bank from its raw arguments to the cache.  Two *)
(* calls one after the other, each with the bank name of a row and the     *)
(* country code of its SWIFT code.                                         *)
(***************************************************************************)
NoneValue == [type |-> "NoneType", chars |-> <<>>]

\* bool(value): None and '' are false, NaN and every other string are true
truthy(value) == value.type = "float" \/ (value.type = "str" /\ value.chars # <<>>)

\* " ".join(words)
RECURSIVE join(_)
join(words) ==
    IF words = <<>> THEN <<>>
    ELSE IF Len(words) = 1 THEN words[1]
    ELSE words[1] \o <<" ">> \o join(Tail(words))

\* mutant: the bank name is lower-cased as well
_normalize_cache_key_lower(bank_name, swift_country_code) ==
    IF truthy(bank_name) /\ bank_name.type # "str"
    THEN [raised |-> TRUE, norm_bank |-> <<>>, norm_country |-> <<>>]
    ELSE [raised |-> FALSE,
          norm_bank |-> IF truthy(bank_name) THEN lower(join(split(bank_name.chars))) ELSE <<>>,
          norm_country |-> IF truthy(swift_country_code)
                           THEN upper(strip(swift_country_code.chars)) ELSE <<>>]

\* (norm_bank, norm_country), or the AttributeError of .split() on a value
\* that is true and not a string
_normalize_cache_key(bank_name, swift_country_code) ==
    IF truthy(bank_name) /\ bank_name.type # "str"
    THEN [raised |-> TRUE, norm_bank |-> <<>>, norm_country |-> <<>>]
    ELSE [raised |-> FALSE,
          norm_bank |-> IF truthy(bank_name) THEN join(split(bank_name.chars)) ELSE <<>>,
          norm_country |-> IF truthy(swift_country_code)
                           THEN upper(strip(swift_country_code.chars)) ELSE <<>>]

\* the 'bank' cell of a row: missing, NaN, empty, blank, and names that differ
\* in whitespace, in letter case, or in having whitespace at all
BankNames ==
    {NoneValue, NaN, Str(<<>>), Str(<<" ">>),
     Str(<<"A", "b", " ", "C">>),
     Str(<<"a", "b", " ", "C">>),
     Str(<<" ", "A", "b", " ", " ", "C">>),
     Str(<<"A", "b", "\t", "C", " ">>),
     Str(<<"A", "b", "C">>)}

\* ISO country codes in either case, or none
CountryCodes == {NoneValue, Str(<<"K", "Y">>), Str(<<"k", "y">>), Str(<<"U", "S">>)}

\* calls of geocode_bank in one run
NumLookups == 2

\* what one call did
NoTrace ==
    [consulted |-> FALSE, norm_bank |-> <<>>, norm_country |-> <<>>, hit |-> FALSE,
     rate_limited |-> FALSE, requests |-> 0, attempts |-> 0, backoffs |-> 0,
     outcome |-> Pending]

LookupIdle ==
    [calls |-> <<>>, i |-> 1, pc |-> "none", attempt |-> 1, entries |-> {},
     trace |-> <<>>]

LookupInputs ==
    {[LookupIdle EXCEPT !.calls = calls, !.pc = "call",
                        !.trace = [k \in 1..NumLookups |-> NoTrace]] :
        calls \in [1..NumLookups -> [bank_name : BankNames, swift_country_code : CountryCodes]]}

(***************************************************************************)
(* app.py and web_app.py: the upload handler, the job store and the        *)
(* processing of a job.  A file is known by the job and the form field it  *)
(* was uploaded for.                                                       *)
(***************************************************************************)
\* jobs started in one run of the server
NumJobs == 2
JobIds == 1..NumJobs

\* uploads whose save fails in one run of the server
MaxFailedUploads == 1

\* the front ends: app.py (Flask) and web_app.py (FastAPI)
FrontEnds == {"app", "web_app"}

\* os.path.basename(incoming_file.filename): the names the users give their files
Filenames == {"in.xlsx", "out.xlsx"}

\* f"{uuid.uuid4()}{incoming_ext}": names that uuid4 makes, never the same twice
\* (two for every upload within the bounds)
UuidNames ==
    {"uuid1.xlsx", "uuid2.xlsx", "uuid3.xlsx", "uuid4.xlsx", "uuid5.xlsx", "uuid6.xlsx"}

Paths == Filenames \cup UuidNames

NoPath == "nopath"
NoFile == [job |-> 0, kind |-> "none"]
Unread == [job |-> 0, kind |-> "unread"]
Upload(j, kind) == [job |-> j, kind |-> kind]

\* uuid.uuid4(): a name not made before
uuid4(used) == CHOOSE u \in UuidNames \ used : TRUE

\* os.path.join(UPLOAD_FOLDER, ...): app.py joins the basename of the user's
\* file name, web_app.py a new uuid4 with the extension
upload_paths(app, incoming_filename, outgoing_filename, used) ==
    IF app = "app"
    THEN [incoming_path |-> incoming_filename, outgoing_path |-> outgoing_filename,
          used |-> used]
    ELSE LET incoming_path == uuid4(used)
             outgoing_path == uuid4(used \cup {incoming_path})
         IN  [incoming_path |-> incoming_path, outgoing_path |-> outgoing_path,
              used |-> used \cup {incoming_path, outgoing_path}]

\* mutant: the finally block removes nothing
cleanup_upload_files_none(files, file_paths) == files

\* for path in file_paths: if os.path.exists(path): os.remove(path)
cleanup_upload_files(files, file_paths) ==
    [p \in Paths |-> IF p \in file_paths THEN NoFile ELSE files[p]]

\* jobs = {}, an empty upload folder
JobsIdle ==
    [app |-> "app",
     pc |-> [j \in JobIds |-> "none"],
     status |-> [j \in JobIds |-> "none"],
     incoming_path |-> [j \in JobIds |-> NoPath],
     outgoing_path |-> [j \in JobIds |-> NoPath],
     read |-> [j \in JobIds |-> <<Unread, Unread>>],
     files |-> [p \in Paths |-> NoFile],
     used |-> {},
     failed_uploads |-> 0]

\* nothing outside the resolver, the confidence functions and the pipeline runs
ExtraIdle ==
    /\ prelim = PrelimIdle
    /\ batch = BatchIdle
    /\ lookup = LookupIdle
    /\ jobs = JobsIdle

(***************************************************************************)
(* Initial state: empty cache, _last_request_time = 0.0 (long ago).        *)
(***************************************************************************)
ResolverInit ==
    /\ cache = <<>>
    /\ insertOrder = <<>>
    /\ useOrder = <<>>
    /\ event = NoEvent
    /\ elapsed = MinInterval
    /\ gap = MinInterval
    /\ rateLock = NoOwner
    /\ timer = [c \in Callers |-> 0]
    /\ cpc = [c \in Callers |-> "idle"]
    /\ wpc = [c \in Callers |-> "none"]
    /\ key = [c \in Callers |-> 1]
    /\ mode = [c \in Callers |-> "sync"]
    /\ attempt = [c \in Callers |-> 0]
    /\ outcome = [c \in Callers |-> Pending]
    /\ result = [c \in Callers |-> Pending]
    /\ timedOut = [c \in Callers |-> FALSE]

extraVars == <<prelim, batch, lookup, jobs>>
others == <<conf, before, swift, norm, fm, pipeline, extraVars>>
cacheVars == <<cache, insertOrder, useOrder>>
resolverVars == <<cache, insertOrder, useOrder, event, elapsed, gap, rateLock, timer,
                  cpc, wpc, key, mode, attempt, outcome, result, timedOut>>
limiterVars == <<elapsed, gap, rateLock>>
callerVars == <<cpc, mode, result, timedOut>>

\* geocode_bank calls _geocode_bank_cached(norm_bank, norm_country): the
\* lru_cache wrapper returns a cached value, or the body runs and first asks
\* for the rate limiter
CachedCall(c, k) ==
    IF CacheHit(cache, k)
    THEN /\ cache' = CacheTouch(cache, k)
         /\ useOrder' = Append(Without(useOrder, k), k)
         /\ event' = [NoEvent EXCEPT !.op = "hit", !.key = k]
         /\ outcome' = [outcome EXCEPT ![c] = cache[CacheGet(cache, k)].v]
         /\ wpc' = [wpc EXCEPT ![c] = "finished"]
         /\ UNCHANGED insertOrder
    ELSE /\ wpc' = [wpc EXCEPT ![c] = "rl_lock"]
         /\ outcome' = [outcome EXCEPT ![c] = Pending]
         /\ event' = NoEvent
         /\ UNCHANGED cacheVars

\* parallel_web_research is called: get_running_loop decides the bridge, and
\* run_web_research runs geocode_bank (first attempt) on an executor thread
Call(c, k, m) ==
    /\ cpc[c] \in {"idle", "returned"}
    /\ cpc' = [cpc EXCEPT ![c] = "wait"]
    /\ mode' = [mode EXCEPT ![c] = m]
    /\ result' = [result EXCEPT ![c] = Pending]
    /\ timedOut' = [timedOut EXCEPT ![c] = FALSE]
    /\ key' = [key EXCEPT ![c] = k]
    /\ attempt' = [attempt EXCEPT ![c] = 1]
    /\ CachedCall(c, k)
    /\ UNCHANGED <<limiterVars, timer, others>>

\* mutant: the dispatch time is stamped and the lock is never released
Stamp_keepLock(c) ==
    /\ gap' = elapsed
    /\ elapsed' = 0
    /\ rateLock' = c
    /\ wpc' = [wpc EXCEPT ![c] = "request"]

\* the request leaves right after rate_limit stamped the dispatch time
Stamp(c) ==
    /\ gap' = elapsed
    /\ elapsed' = 0
    /\ rateLock' = NoOwner
    /\ wpc' = [wpc EXCEPT ![c] = "request"]

\* rate_limit: take the lock, read the clock, then sleep or stamp
RateLimit(c) ==
    /\ wpc[c] = "rl_lock"
    /\ LockFree(rateLock)
    /\ IF SleepFor(elapsed) > 0
       THEN /\ rateLock' = c
            /\ timer' = [timer EXCEPT ![c] = SleepFor(elapsed)]
            /\ wpc' = [wpc EXCEPT ![c] = "rl_sleep"]
            /\ UNCHANGED <<elapsed, gap>>
       ELSE /\ Stamp(c)
            /\ UNCHANGED timer
    /\ event' = NoEvent
    /\ UNCHANGED <<cacheVars, callerVars, key, attempt, outcome, others>>

\* rate_limit: the sleep is over, stamp and release the lock
RateLimitWake(c) ==
    /\ wpc[c] = "rl_sleep"
    /\ timer[c] = 0
    /\ Stamp(c)
    /\ event' = NoEvent
    /\ UNCHANGED <<cacheVars, timer, callerVars, key, attempt, outcome, others>>

\* the wrapper stores the value the body returned
Store(c, v) ==
    /\ cache' = CacheStore(cache, key[c], v)
    /\ insertOrder' = Follow(insertOrder, cache', key[c])
    /\ useOrder' = Follow(useOrder, cache', key[c])
    /\ event' = [op |-> "store", key |-> key[c],
                 victims |-> CacheKeys(cache) \ CacheKeys(cache'),
                 oldest |-> IF insertOrder = <<>> THEN 0 ELSE insertOrder[1],
                 lru |-> IF useOrder = <<>> THEN 0 ELSE useOrder[1]]
    /\ outcome' = [outcome EXCEPT ![c] = v]
    /\ wpc' = [wpc EXCEPT ![c] = "finished"]

\* requests.get answers: a result list, a RequestException (caught, None is
\* returned), or another exception, which leaves the body uncached and reaches
\* tenacity: wait and retry, or RetryError after the last attempt
RequestDone(c, o) ==
    /\ wpc[c] = "request"
    /\ \/ /\ o = "ok"
          /\ Store(c, Found)
       \/ /\ o = "request_exception"
          /\ Store(c, Absent)
       \/ /\ o = "exception"
          /\ IF attempt[c] < StopAfterAttempt
             THEN /\ wpc' = [wpc EXCEPT ![c] = "backoff"]
                  /\ UNCHANGED outcome
             ELSE /\ wpc' = [wpc EXCEPT ![c] = "finished"]
                  /\ outcome' = [outcome EXCEPT ![c] = Raised]
          /\ event' = NoEvent
          /\ UNCHANGED cacheVars
    /\ UNCHANGED <<limiterVars, timer, callerVars, key, attempt, others>>

\* tenacity: the wait (wait_exponential, at least 2 s, its length left open) is
\* over and geocode_bank is called again
Retry(c) ==
    /\ wpc[c] = "backoff"
    /\ attempt' = [attempt EXCEPT ![c] = @ + 1]
    /\ CachedCall(c, key[c])
    /\ UNCHANGED <<limiterVars, timer, callerVars, key, others>>

\* the thread that ran geocode_bank is gone, and with it the lookup's locals
ThreadEnds(c) ==
    /\ wpc' = [wpc EXCEPT ![c] = "none"]
    /\ key' = [key EXCEPT ![c] = 1]
    /\ attempt' = [attempt EXCEPT ![c] = 0]
    /\ event' = NoEvent

\* _run_with_new_loop: asyncio.run ends with run_web_research's result or exception
NewLoopReturn(c) ==
    /\ cpc[c] = "wait"
    /\ mode[c] = "sync"
    /\ wpc[c] = "finished"
    /\ cpc' = [cpc EXCEPT ![c] = run_with_new_loop(outcome[c]).pc]
    /\ result' = [result EXCEPT ![c] = run_with_new_loop(outcome[c]).geocoding]
    /\ ThreadEnds(c)
    /\ UNCHANGED <<cacheVars, limiterVars, timer, mode, outcome, timedOut, others>>

\* _run_in_thread: future.result returns or re-raises what the worker ended with
\* (the executor's shutdown finds the worker finished)
FutureResult(c) ==
    /\ cpc[c] = "wait"
    /\ mode[c] = "loop"
    /\ wpc[c] = "finished"
    /\ cpc' = [cpc EXCEPT ![c] = run_in_thread(outcome[c]).pc]
    /\ result' = [result EXCEPT ![c] = run_in_thread(outcome[c]).geocoding]
    /\ ThreadEnds(c)
    /\ UNCHANGED <<cacheVars, limiterVars, timer, mode, outcome, timedOut, others>>

\* _run_in_thread: future.result(timeout=30) raises TimeoutError while the
\* worker is still running; the return value is fixed, and leaving the with
\* block calls executor.shutdown(wait=True)
FutureTimeout(c) ==
    /\ cpc[c] = "wait"
    /\ mode[c] = "loop"
    /\ wpc[c] # "finished"
    /\ cpc' = [cpc EXCEPT ![c] = "join"]
    /\ result' = [result EXCEPT ![c] = Absent]
    /\ timedOut' = [timedOut EXCEPT ![c] = TRUE]
    /\ event' = NoEvent
    /\ UNCHANGED <<cacheVars, limiterVars, timer, wpc, key, mode, attempt, outcome, others>>

\* executor.shutdown(wait=True) ends when the worker thread has finished, and
\* only then does _run_in_thread return
ShutdownJoin(c) ==
    /\ cpc[c] = "join"
    /\ wpc[c] = "finished"
    /\ cpc' = [cpc EXCEPT ![c] = "returned"]
    /\ ThreadEnds(c)
    /\ UNCHANGED <<cacheVars, limiterVars, timer, mode, outcome, result, timedOut, others>>

\* time passes: every clock reading grows, every sleep gets shorter
Tick ==
    /\ (elapsed < MinInterval \/ \E c \in Callers : timer[c] > 0)
    /\ elapsed' = IF elapsed < MinInterval THEN elapsed + 1 ELSE elapsed
    /\ timer' = [c \in Callers |-> IF timer[c] > 0 THEN timer[c] - 1 ELSE 0]
    /\ event' = NoEvent
    /\ UNCHANGED <<cacheVars, gap, rateLock, callerVars, wpc, key, attempt, outcome, others>>

Next ==
    \/ \E c \in Callers, k \in Keys, m \in {"sync", "loop"} : Call(c, k, m)
    \/ \E c \in Callers : RateLimit(c)
    \/ \E c \in Callers : RateLimitWake(c)
    \/ \E c \in Callers, o \in {"ok", "request_exception", "exception"} : RequestDone(c, o)
    \/ \E c \in Callers : Retry(c)
    \/ \E c \in Callers : NewLoopReturn(c)
    \/ \E c \in Callers : FutureResult(c)
    \/ \E c \in Callers : FutureTimeout(c)
    \/ \E c \in Callers : ShutdownJoin(c)
    \/ Tick

Init ==
    /\ ResolverInit
    /\ conf = ConfIdle
    /\ before = NoBefore
    /\ swift = SwiftIdle
    /\ norm = NormIdle
    /\ fm = FuzzyIdle
    /\ pipeline = PipelineIdle
    /\ ExtraIdle

Spec == Init /\ [][Next]_vars

(***************************************************************************)
(* The signal pipeline on top of the resolver: every caller analyses one   *)
(* row after the other with the same module.                               *)
(***************************************************************************)
PipelineInit ==
    /\ ResolverInit
    /\ conf = ConfIdle
    /\ before = NoBefore
    /\ swift = SwiftIdle
    /\ norm = NormIdle
    /\ fm = FuzzyIdle
    /\ pipeline \in {[PipelineIdle EXCEPT !.version = v] : v \in Versions}
    /\ ExtraIdle

\* analyze_transaction starts on the caller's next row: run_preliminary_analysis
Preliminary(c, s) ==
    /\ pipeline.row[c].pc = "none"
    /\ pipeline' = [pipeline EXCEPT !.row[c] =
                       [pc |-> "prelim",
                        confidence |-> run_preliminary_analysis(pipeline.version, s)]]
    /\ event' = NoEvent
    /\ UNCHANGED <<cacheVars, limiterVars, timer, cpc, wpc, key, mode, attempt, outcome,
                   result, timedOut, conf, before, swift, norm, fm, extraVars>>

\* web_results = parallel_web_research(...), on the thread that app.py starts
\* for the job, where no event loop is running
Research(c, k) ==
    /\ pipeline.row[c].pc = "prelim"
    /\ cpc[c] = "idle"
    /\ calls_web_research(pipeline.version, pipeline.row[c].confidence)
    /\ Call(c, k, "sync")

\* the research has returned or was left out: classify_with_gpt4, and
\* analyze_transaction returns (from the except branch if the research raised)
Classify(c) ==
    /\ pipeline.row[c].pc = "prelim"
    /\ \/ cpc[c] \in {"returned", "raised"}
       \/ /\ cpc[c] = "idle"
          /\ ~calls_web_research(pipeline.version, pipeline.row[c].confidence)
    /\ pipeline' = [pipeline EXCEPT !.row[c] = RowIdle]
    /\ cpc' = [cpc EXCEPT ![c] = "idle"]
    /\ event' = NoEvent
    /\ UNCHANGED <<cacheVars, limiterVars, timer, wpc, key, mode, attempt, outcome,
                   result, timedOut, conf, before, swift, norm, fm, extraVars>>

PipelineNext ==
    \/ \E c \in Callers, s \in PrelimSignals : Preliminary(c, s)
    \/ \E c \in Callers, k \in Banks : Research(c, k)
    \/ \E c \in Callers : Classify(c)
    \/ \E c \in Callers : RateLimit(c)
    \/ \E c \in Callers : RateLimitWake(c)
    \/ \E c \in Callers, o \in {"ok", "request_exception", "exception"} : RequestDone(c, o)
    \/ \E c \in Callers : Retry(c)
    \/ \E c \in Callers : NewLoopReturn(c)
    \/ Tick

SpecPipeline == PipelineInit /\ [][PipelineNext]_vars

(***************************************************************************)
(* calculate_confidence on its own: every argument combination within the  *)
(* bounds, then one call of each implementation.                           *)
(***************************************************************************)
ConfInit ==
    /\ ResolverInit
    /\ conf \in ConfInputs
    /\ before = NoBefore
    /\ swift = SwiftIdle
    /\ norm = NormIdle
    /\ fm = FuzzyIdle
    /\ pipeline = PipelineIdle
    /\ ExtraIdle

\* run_preliminary_analysis lines 121-123: confidence = calculate_confidence(...)
\* and scenario = classify_scenario(...)
Score ==
    /\ ~conf.done
    /\ conf' = [conf EXCEPT
                   !.done = TRUE,
                   !.out = calculate_confidence(conf.dict_hits, conf.swift_country_match,
                               conf.matched_fields, conf.match_details, conf.field_weights),
                   !.out_legacy = calculate_confidence_legacy(conf.dict_hits,
                               conf.swift_country_match, conf.matched_fields,
                               conf.match_details),
                   !.scenario = classify_scenario(conf.direction, conf.dict_hits,
                               conf.swift_country_match)]
    /\ UNCHANGED <<resolverVars, before, swift, norm, fm, pipeline, extraVars>>

\* the same row with one more positive signal: the arguments of the next call
\* of calculate_confidence.  run_preliminary_analysis (lines 113-116) adds a
\* hit together with its field and its match detail.
AddSignal(s) ==
    /\ conf.done
    /\ before = NoBefore
    /\ before' = [signal |-> s, out |-> conf.out, out_legacy |-> conf.out_legacy]
    /\ \/ /\ s = "dict_hit"
          /\ conf' = [conf EXCEPT !.done = FALSE,
                                  !.dict_hits = Append(@, "bermuda")]
       \/ /\ s = "swift"
          /\ ~Truthy(conf.swift_country_match)
          /\ conf' = [conf EXCEPT !.done = FALSE,
                                  !.swift_country_match = "cayman islands"]
       \/ /\ s = "field"
          /\ \E f \in InputFields \ conf.matched_fields :
                conf' = [conf EXCEPT !.done = FALSE,
                                     !.matched_fields = @ \cup {f}]
       \/ /\ s = "match"
          /\ Len(conf.dict_hits) = Len(conf.match_details)
          /\ \E f \in InputFields, sim \in MatchSimilarities :
                conf' = [conf EXCEPT !.done = FALSE,
                                     !.dict_hits = Append(@, "bermuda"),
                                     !.matched_fields = @ \cup {f},
                                     !.match_details = Append(@, sim)]
    /\ UNCHANGED <<resolverVars, swift, norm, fm, pipeline, extraVars>>

ConfNext ==
    \/ Score
    \/ \E s \in {"dict_hit", "swift", "field", "match"} : AddSignal(s)

SpecConf == ConfInit /\ [][ConfNext]_vars

(***************************************************************************)
(* Claims about the geocoding resolver (specification Spec).               *)
(***************************************************************************)
InFlight(c) == wpc[c] \in {"rl_lock", "rl_sleep", "request", "backoff"}

\* a step in which caller c's lookup consults the lru_cache wrapper
Consults(c) ==
    \/ cpc[c] \in {"idle", "returned"} /\ cpc'[c] = "wait"
    \/ wpc[c] = "backoff" /\ wpc'[c] # "backoff"

\* a step in which the request of caller c's lookup ends the lookup
Ends(c) == wpc[c] = "request" /\ wpc'[c] = "finished"

\* C1: any two consecutive grants of the 'geocode' rate limiter are at least
\* the minimum interval apart: at every stamp of the last-dispatch time, the
\* time since the previous stamp is at least MinInterval.
C1_GrantsSpaced == gap >= MinInterval

\* C1 witness: two callers' requests are out at once, the second grant just
\* made, exactly the minimum interval after the first.
C1_Witness ==
    /\ \A c \in Callers : wpc[c] = "request"
    /\ elapsed = 0
    /\ gap = MinInterval
    /\ \E c \in Callers : attempt[c] = StopAfterAttempt

\* C2: the geocode cache never holds more entries than its capacity.
C2_CacheBounded == Len(cache) <= maxsize

\* C2 witness: a value was just stored in a full cache, which evicted an entry.
C2_Witness ==
    /\ event.op = "store"
    /\ event.victims # {}
    /\ Len(cache) = maxsize

C4_HitReturnsCached ==
    [][\A c \in Callers :
          (Consults(c) /\ key'[c] \in CacheKeys(cache)) =>
              /\ wpc'[c] = "finished"
              /\ outcome'[c] = cache[CacheGet(cache, key'[c])].v
              /\ <<elapsed, gap, rateLock>>' = <<elapsed, gap, rateLock>>]_vars

\* C4 witness: a lookup has just ended by a cache hit on a 'no result' marker.
C4_Witness ==
    /\ event.op = "hit"
    /\ \E c \in Callers :
          /\ wpc[c] = "finished"
          /\ key[c] = event.key
          /\ outcome[c] = Absent
          /\ attempt[c] = 1

\* C5 as claimed: a first request that fails transiently is followed by a
\* second attempt of the same lookup (a first attempt ends the lookup only by
\* success), and no lookup makes more than 2 attempts.
C5_TransientFailureRetried ==
    /\ [][\A c \in Callers :
             (wpc[c] = "request" /\ attempt[c] = 1 /\ wpc'[c] # "request") =>
                 (wpc'[c] = "backoff" \/ outcome'[c] = Found)]_vars
    /\ [](\A c \in Callers : attempt[c] <= StopAfterAttempt)

\* C6 as claimed: when a request ends the lookup, in success or in failure,
\* the cache holds an entry for the key afterwards, and an entry this lookup
\* made holds its outcome ('no result' for a failure).
C6_OutcomeStored ==
    [][\A c \in Callers :
          Ends(c) =>
              /\ key[c] \in CacheKeys(cache')
              /\ key[c] \notin CacheKeys(cache) =>
                    cache'[CacheGet(cache', key[c])].v =
                        (IF outcome'[c] = Found THEN Found ELSE Absent)]_vars

\* C7: parallel_web_research never raises, and whenever the lookup failed
\* (request failure, exhausted retries or timeout) it returned an absent
\* geocode result.
C7_NeverRaises ==
    \A c \in Callers :
        /\ cpc[c] # "raised"
        /\ (cpc[c] = "returned" /\ (outcome[c] \in {Absent, Raised} \/ timedOut[c]))
               => result[c] = Absent

\* C7 witness: one caller without a running loop and one inside a running
\* loop have both returned absent from lookups that ended in an exception.
C7_Witness ==
    /\ \E c \in Callers :
          cpc[c] = "returned" /\ mode[c] = "sync" /\ outcome[c] = Raised /\ result[c] = Absent
    /\ \E c \in Callers :
          cpc[c] = "returned" /\ mode[c] = "loop" /\ outcome[c] = Raised /\ result[c] = Absent

\* C8 as claimed: once the 30-second timeout has elapsed the caller has its
\* absent result; it is never held back by a worker that is still running.
C8_TimeoutReturnsAtOnce ==
    \A c \in Callers : ~(timedOut[c] /\ cpc[c] = "join" /\ InFlight(c))

\* C9 as claimed: the lookup of a timed-out call still runs to its end, its
\* outcome is then in the shared cache under its key, and the caller's result
\* stays absent.
C9_TimedOutLookupStored ==
    [][\A c \in Callers :
          (timedOut[c] /\ InFlight(c) /\ wpc'[c] = "finished") =>
              /\ key[c] \in CacheKeys(cache')
              /\ result'[c] = Absent]_vars

(***************************************************************************)
(* Claims about calculate_confidence (specification SpecConf).             *)
(***************************************************************************)
\* C10: for every combination of arguments, calculate_confidence returns a
\* value in [0, 1] (both the analyzer.py and the offshore_detector.py one).
C10_ConfidenceInUnitInterval ==
    conf.done => (conf.out \in 0..One /\ conf.out_legacy \in 0..One)

\* C10 witness: a call with every signal present, where the sum reaches or
\* exceeds 1.0 and the returned value is exactly 1.0.
C10_Witness ==
    /\ conf.done
    /\ Len(conf.dict_hits) > 1
    /\ Truthy(conf.swift_country_match)
    /\ Cardinality(conf.matched_fields) > 2
    /\ conf.out = One
    /\ conf.out_legacy = One
    /\ legacy_sum(conf.dict_hits, conf.swift_country_match, conf.matched_fields,
                  conf.match_details) > One

\* C11 as claimed: the score never goes down when one positive signal is added
\* to the arguments: one more dict hit, a SWIFT match that was absent, one more
\* matched field, or one more hit that comes with its field and match detail.
C11_ScoreMonotone ==
    (conf.done /\ before.signal # "none") =>
        (conf.out >= before.out /\ conf.out_legacy >= before.out_legacy)

\* C12: the reference sum of the claim, clamped to [0, 1]: 0.30 for a
\* non-empty dictHits, 0.20 for a present swiftMatch, 0.30 times the capped sum
\* of the matched fields' weights, 0.05 for more than one dict hit, 0.05 for
\* more than two matched fields, 0.10 times the mean similarity.
C12_ReferenceSum(dictHits, swiftMatch, matchedFields, matchDetails, fieldWeights) ==
    LET term1 == IF dictHits # <<>> THEN (30 * One) \div 100 ELSE 0
        term2 == IF swiftMatch # None THEN (20 * One) \div 100 ELSE 0
        wsum == SumWeights(fieldWeights, matchedFields)
        term3 == ((IF wsum > One THEN One ELSE wsum) * 30) \div 100
        term4 == IF Len(dictHits) > 1 THEN (5 * One) \div 100 ELSE 0
        term5 == IF Cardinality(matchedFields) > 2 THEN (5 * One) \div 100 ELSE 0
        mean == IF matchDetails = <<>> THEN 0
                ELSE SumSeq(matchDetails) \div Len(matchDetails)
        total == term1 + term2 + term3 + term4 + term5 + (mean * 10) \div 100
    IN  IF total > One THEN One ELSE IF total < 0 THEN 0 ELSE total

\* C12 as claimed: calculate_confidence returns the reference sum clamped to
\* [0, 1], in analyzer.py and in offshore_detector.py; one dict hit, a SWIFT
\* match, the matched field of weight 0.3 and one detail of similarity 1.0
\* give 0.69.
C12_EqualsReferenceSum ==
    conf.done =>
        LET ref == C12_ReferenceSum(conf.dict_hits, conf.swift_country_match,
                       conf.matched_fields, conf.match_details, conf.field_weights)
        IN  /\ conf.out = ref
            /\ conf.out_legacy = ref
            /\ (/\ Len(conf.dict_hits) = 1
                /\ Truthy(conf.swift_country_match)
                /\ conf.matched_fields = {"payer"}
                /\ conf.field_weights = FIELD_WEIGHTS_INCOMING
                /\ conf.match_details = <<One>>) => conf.out = (69 * One) \div 100

\* C13: classify_scenario returns absent when dictHits is empty and swiftMatch
\* is absent, whatever the direction; otherwise 1 for 'incoming', 2 for
\* 'outgoing' and 3 for any other direction value, a missing one included.
C13_ScenarioByDirection ==
    conf.done =>
        conf.scenario =
            (IF conf.dict_hits = <<>> /\ conf.swift_country_match = None THEN NoScenario
             ELSE CASE conf.direction = "incoming" -> 1
                    [] conf.direction = "outgoing" -> 2
                    [] OTHER -> 3)

\* C13 witness: a row without a direction whose only signal is a SWIFT match
\* was classified as scenario 3.
C13_Witness ==
    /\ conf.done
    /\ conf.direction = None
    /\ conf.dict_hits = <<>>
    /\ conf.swift_country_match # None
    /\ conf.scenario = 3

\* C14 as claimed: with empty dictHits and an absent swiftMatch, whatever the
\* direction and the remaining arguments, classify_scenario returns absent and
\* calculate_confidence returns exactly 0.0.
C14_NoSignalZero ==
    (conf.done /\ conf.dict_hits = <<>> /\ conf.swift_country_match = None) =>
        (conf.scenario = NoScenario /\ conf.out = 0 /\ conf.out_legacy = 0)

\* C14 as amended: with empty dictHits and an absent swiftMatch
\* classify_scenario returns absent whatever the direction and the remaining
\* arguments; calculate_confidence returns 0.0 when matchedFields and
\* matchDetails are empty too, and otherwise 0.30 times the capped field-weight
\* sum plus 0.10 times the mean similarity.
C14_NoSignalZeroWhenNothingMatched ==
    (conf.done /\ conf.dict_hits = <<>> /\ conf.swift_country_match = None) =>
        /\ conf.scenario = NoScenario
        /\ (conf.matched_fields = {} /\ conf.match_details = <<>>) =>
               (conf.out = 0 /\ conf.out_legacy = 0)
        /\ conf.out = (Min(SumWeights(conf.field_weights, conf.matched_fields), One) * 3) \div 10
                      + QualityBonus(conf.match_details)
                      + (IF Cardinality(conf.matched_fields) > 2 THEN One \div 20 ELSE 0)

\* C14 witness: an outgoing row with no hit, no SWIFT match, no matched field
\* and no match detail was scored 0.0 and got no scenario.
C14_Witness ==
    /\ conf.done
    /\ conf.direction = "outgoing"
    /\ conf.dict_hits = <<>>
    /\ conf.swift_country_match = None
    /\ conf.matched_fields = {}
    /\ conf.match_details = <<>>
    /\ conf.out = 0
    /\ conf.scenario = NoScenario

(***************************************************************************)
(* extract_country_from_swift on its own (specification SpecSwift).        *)
(***************************************************************************)
SwiftInit ==
    /\ ResolverInit
    /\ conf = ConfIdle
    /\ before = NoBefore
    /\ swift \in SwiftInputs
    /\ norm = NormIdle
    /\ fm = FuzzyIdle
    /\ pipeline = PipelineIdle
    /\ ExtraIdle

\* run_preliminary_analysis: swift_country_match = extract_country_from_swift(swift_code)
Extract ==
    /\ ~swift.done
    /\ swift' = [swift EXCEPT !.done = TRUE,
                              !.out = extract_country_from_swift(swift.code),
                              !.out_legacy = extract_country_from_swift_legacy(swift.code)]
    /\ UNCHANGED <<resolverVars, conf, before, norm, fm, pipeline, extraVars>>

SwiftNext == Extract

SpecSwift == SwiftInit /\ [][SwiftNext]_vars

\* the trimmed, upper-cased form has length 8 or 11 and letters at offsets 4-5
C15_WellFormed(code) ==
    /\ code.type = "str"
    /\ Len(upper(strip(code.chars))) \in {8, 11}
    /\ isalpha(Slice(upper(strip(code.chars)), 4, 6))

\* C15 as claimed: the SWIFT extractor (analyzer.py and offshore_detector.py)
\* returns absent unless the input is a string whose trimmed, upper-cased form
\* has length 8 or 11 with letters at offsets 4-5; a name it returns is the
\* country map's entry for those two characters and is in the offshore
\* dictionary.
C15_ExtractsOffshoreOnly ==
    swift.done =>
        \A out \in {swift.out, swift.out_legacy} :
            out # None =>
                /\ C15_WellFormed(swift.code)
                /\ out = MapGet(Slice(upper(strip(swift.code.chars)), 4, 6))
                /\ out \in OFFSHORE_JURISDICTIONS_en

(***************************************************************************)
(* normalize_text on its own (specification SpecNorm).                     *)
(***************************************************************************)
NormInit ==
    /\ ResolverInit
    /\ conf = ConfIdle
    /\ before = NoBefore
    /\ swift = SwiftIdle
    /\ norm \in NormInputs
    /\ fm = FuzzyIdle
    /\ pipeline = PipelineIdle
    /\ ExtraIdle

\* normalized = normalize_text(text), then normalize_text(normalized)
Normalize ==
    /\ ~norm.done
    /\ norm' = [norm EXCEPT !.done = TRUE,
                            !.out = normalize_text(norm.text),
                            !.again = normalize_text(Str(normalize_text(norm.text)))]
    /\ UNCHANGED <<resolverVars, conf, before, swift, fm, pipeline, extraVars>>

NormNext == Normalize

SpecNorm == NormInit /\ [][NormNext]_vars

\* ASCII punctuation among the characters of the inputs
C19_Punctuation == {"_", ".", "-"}

FuzzyInit ==
    /\ ResolverInit
    /\ conf = ConfIdle
    /\ before = NoBefore
    /\ swift = SwiftIdle
    /\ norm = NormIdle
    /\ fm \in FuzzyInputs
    /\ pipeline = PipelineIdle
    /\ ExtraIdle

\* run_preliminary_analysis: matches = fuzzy_match(text_to_check, jurisdictions)
Match ==
    /\ ~fm.done
    /\ LET run == fuzzy_match_run(FALSE, fm.text, fm.targets, fm.threshold)
           run_legacy == fuzzy_match_run(TRUE, fm.text, fm.targets, fm.threshold)
       IN  fm' = [fm EXCEPT !.done = TRUE,
                            !.matches = run.matches,
                            !.out = run.out,
                            !.matches_legacy = run_legacy.matches,
                            !.out_legacy = run_legacy.out]
    /\ UNCHANGED <<resolverVars, conf, before, swift, norm, pipeline, extraVars>>

FuzzyNext == Match

SpecFuzzy == FuzzyInit /\ [][FuzzyNext]_vars

\* C16: fuzzy_match returns at most 5 candidates, no two of them with the same
\* matched target, in non-increasing order of similarity, each with a matched
\* target that is one of the given targets and a similarity in [0, 1]
\* (fuzzy_matcher.py and _legacy/fuzzy_matcher.py).
C16_TopFiveUniqueSorted ==
    fm.done =>
        \A out \in {fm.out, fm.out_legacy} :
            /\ Len(out) <= 5
            /\ \A i, j \in 1..Len(out) : i # j => out[i].match # out[j].match
            /\ \A i \in 1..(Len(out) - 1) : out[i].similarity >= out[i + 1].similarity
            /\ \A i \in 1..Len(out) :
                  /\ out[i].match \in Range(fm.targets)
                  /\ out[i].similarity \in 0..One

\* C16 witness: more than 5 targets were accepted, one of them twice, and the
\* 5 returned candidates do not all have the same similarity.
C16_Witness ==
    /\ fm.done
    /\ Len(fm.matches) > 5
    /\ \E i, j \in 1..Len(fm.matches) : i # j /\ fm.matches[i].match = fm.matches[j].match
    /\ Len(fm.out) = 5
    /\ fm.out[1].similarity > fm.out[5].similarity

\* C17 as claimed: every target whose normalized form has at least 3
\* characters and occurs verbatim in the normalized text has a candidate of
\* similarity 1.0 among the candidates found before the cut to the top 5,
\* whether or not it has a significant token (fuzzy_matcher.py and
\* _legacy/fuzzy_matcher.py).
C17_ExactSubstringIsOne ==
    fm.done =>
        \A i \in 1..Len(fm.targets) :
            LET normalized_target == normalize_text(Str(fm.targets[i]))
            IN  (/\ Len(normalized_target) >= 3
                 /\ Contains(normalize_text(fm.text), normalized_target)) =>
                    \A matches \in {fm.matches, fm.matches_legacy} :
                        \E k \in 1..Len(matches) :
                            /\ matches[k].match = fm.targets[i]
                            /\ matches[k].similarity = One

\* the token-overlap condition in the words of the specification: the target
\* has one significant token and it is among the text's significant tokens, or
\* several of which at least 2 are
C18_TokenOverlap(text, target) ==
    LET target_tokens == significant_tokens(normalize_text(Str(target)))
        text_tokens == Range(significant_tokens(normalize_text(text)))
        hits == Cardinality({i \in 1..Len(target_tokens) : target_tokens[i] \in text_tokens})
    IN  \/ Len(target_tokens) = 1 /\ hits >= 1
        \/ Len(target_tokens) > 1 /\ hits >= 2

\* the positions of the candidates of one target
C18_CandidatesOf(matches, target) ==
    {k \in 1..Len(matches) : matches[k].match = target}

\* C18 as claimed: a target not accepted by the exact-substring strategy has a
\* candidate of similarity 0.95 exactly when the token-overlap condition
\* holds, a target accepted by the exact-substring strategy has similarity 1.0
\* only, and there is at most one candidate per target given (fuzzy_matcher.py
\* and _legacy/fuzzy_matcher.py).
C18_NinetyFiveIffTokenOverlap ==
    fm.done =>
        \A matches \in {fm.matches, fm.matches_legacy} :
            /\ Len(matches) <= Len(fm.targets)
            /\ \A target \in Range(fm.targets) :
                  LET cands == C18_CandidatesOf(matches, target)
                      exact == \E k \in cands : matches[k].strategy = "exact"
                  IN  /\ exact => \A k \in cands : matches[k].similarity = One
                      /\ (~exact /\ normalize_text(Str(target)) # <<>>) =>
                            ((\E k \in cands : matches[k].similarity = (95 * One) \div 100)
                                <=> C18_TokenOverlap(fm.text, target))

\* C18 amended: the strategies are tried in the order exact substring, token
\* overlap, fuzzy and the first that accepts fixes the candidate: a target not
\* accepted by the exact-substring strategy is accepted by the token-overlap
\* strategy exactly when the token-overlap condition holds, and then with
\* similarity 0.95; a target accepted by the exact-substring strategy has
\* similarity 1.0 also where the token-overlap condition holds; a target
\* accepted by the fuzzy strategy fails the token-overlap condition, and its
\* similarity may itself be 0.95; there is at most one candidate per target
\* given.
C18_FirstAcceptingStrategyWins ==
    fm.done =>
        \A matches \in {fm.matches, fm.matches_legacy} :
            /\ Len(matches) <= Len(fm.targets)
            /\ \A target \in Range(fm.targets) :
                  LET cands == C18_CandidatesOf(matches, target)
                      exact == \E k \in cands : matches[k].strategy = "exact"
                      occurrences == {i \in 1..Len(fm.targets) : fm.targets[i] = target}
                  IN  /\ Cardinality(cands) <= Cardinality(occurrences)
                      /\ \A k, l \in cands : matches[k] = matches[l]
                      /\ exact => \A k \in cands : matches[k].similarity = One
                      /\ (~exact /\ normalize_text(Str(target)) # <<>>) =>
                            ((\E k \in cands : matches[k].strategy = "token")
                                <=> C18_TokenOverlap(fm.text, target))
                      /\ \A k \in cands :
                            /\ matches[k].strategy = "token" =>
                                  matches[k].similarity = (95 * One) \div 100
                            /\ matches[k].strategy \in {"fuzzy", "tokenwise"} =>
                                  ~C18_TokenOverlap(fm.text, target)

\* C18 witness: one call in which a target that also meets the token-overlap
\* condition was accepted by the exact-substring strategy, another by the
\* token-overlap strategy, and a third, which fails the token-overlap
\* condition, by the fuzzy strategy.
C18_Witness ==
    /\ fm.done
    /\ \A matches \in {fm.matches, fm.matches_legacy} :
          /\ \E k \in 1..Len(matches) :
                /\ matches[k].strategy = "exact"
                /\ C18_TokenOverlap(fm.text, matches[k].match)
          /\ \E k \in 1..Len(matches) : matches[k].strategy = "token"
          /\ \E k \in 1..Len(matches) :
                /\ matches[k].strategy = "fuzzy"
                /\ ~C18_TokenOverlap(fm.text, matches[k].match)

\* the targets whose normalized form is not empty, in their order
C22_NonEmptyTargets(targets) ==
    SelectSeq(targets, LAMBDA target : normalize_text(Str(target)) # <<>>)

\* C22: fuzzy_match returns the empty list when the text is empty, is not a
\* string or normalizes to empty, and when the target list is empty; a target
\* whose normalized form is empty is never among the candidates, and the
\* candidates found and returned are those of the same call without such
\* targets (fuzzy_matcher.py).
C22_EmptyInputsAndEmptyTargets ==
    fm.done =>
        /\ (normalize_text(fm.text) = <<>> \/ fm.targets = <<>>) =>
              (fm.matches = <<>> /\ fm.out = <<>>)
        /\ \A k \in 1..Len(fm.matches) : normalize_text(Str(fm.matches[k].match)) # <<>>
        /\ \A k \in 1..Len(fm.out) : normalize_text(Str(fm.out[k].match)) # <<>>
        /\ LET run == fuzzy_match_run(FALSE, fm.text, C22_NonEmptyTargets(fm.targets),
                                      fm.threshold)
           IN  fm.matches = run.matches /\ fm.out = run.out

\* C22 witness: a call with threshold 0, which accepts every comparison of
\* whole strings, had a target whose normalized form is empty among several
\* targets and returned candidates.
C22_Witness ==
    /\ fm.done
    /\ fm.threshold = 0
    /\ \E i \in 1..Len(fm.targets) : normalize_text(Str(fm.targets[i])) = <<>>
    /\ Len(C22_NonEmptyTargets(fm.targets)) > 1
    /\ fm.out # <<>>

\* C20: the pipeline calls the resolver for a row only when the row's
\* computed confidence exceeds the threshold: a caller that is inside
\* parallel_web_research, whose lookup thread exists (waiting for the rate
\* limiter, holding its lock, with a request out, backing off, about to store
\* into the cache) is analysing a row of confidence above the threshold
\* (analyzer.py and offshore_detector.py).
C20_ResolverOnlyAboveThreshold ==
    \A c \in Callers :
        (cpc[c] # "idle" \/ wpc[c] # "none" \/ rateLock = c) =>
            /\ pipeline.row[c].pc = "prelim"
            /\ pipeline.row[c].confidence > ResearchThreshold

(***************************************************************************)
(* run_preliminary_analysis on its own: every row within the bounds, then  *)
(* one call.                                                               *)
(***************************************************************************)
PrelimInit ==
    /\ ResolverInit
    /\ conf = ConfIdle
    /\ before = NoBefore
    /\ swift = SwiftIdle
    /\ norm = NormIdle
    /\ fm = FuzzyIdle
    /\ pipeline = PipelineIdle
    /\ prelim \in PrelimInputs
    /\ batch = BatchIdle
    /\ lookup = LookupIdle
    /\ jobs = JobsIdle

\* preliminary_analysis = run_preliminary_analysis(row)
RunPreliminary ==
    /\ ~prelim.done
    /\ prelim' = [prelim EXCEPT !.done = TRUE, !.bundle = preliminary_bundle(prelim.row)]
    /\ UNCHANGED <<resolverVars, conf, before, swift, norm, fm, pipeline, batch, lookup, jobs>>

PrelimNext == RunPreliminary

SpecPrelim == PrelimInit /\ [][PrelimNext]_vars

(***************************************************************************)
(* A batch: df.apply calls the row analysis for every row in turn.  The    *)
(* resolver is the bridge's handler applied to what the lookup ended with. *)
(***************************************************************************)
BatchInit ==
    /\ ResolverInit
    /\ conf = ConfIdle
    /\ before = NoBefore
    /\ swift = SwiftIdle
    /\ norm = NormIdle
    /\ fm = FuzzyIdle
    /\ pipeline = PipelineIdle
    /\ prelim = PrelimIdle
    /\ batch \in BatchInputs
    /\ lookup = LookupIdle
    /\ jobs = JobsIdle

\* the except branch: the row's result is the error classification, and
\* df.apply goes on with the next row
RowFails ==
    batch' = [batch EXCEPT !.results = on_exception(@), !.i = @ + 1, !.pc = "row",
                           !.bundle = NoBundle, !.geocoding = Unset, !.resolver = Unset]

\* the next row: run_preliminary_analysis(row) in analyzer.py, the local
\* signals (not modelled) in processor.py
BatchPreliminary ==
    /\ batch.pc = "row"
    /\ batch.i < Len(batch.rows)
    /\ LET row == batch.rows[batch.i + 1]
       IN  IF row.direction = None /\ batch.module = "analyzer"
           THEN RowFails
           ELSE batch' = [batch EXCEPT
                             !.bundle = IF batch.module = "analyzer"
                                        THEN batch.analysis[batch.i + 1] ELSE NoBundle,
                             !.pc = IF batch.module = "analyzer" THEN "research"
                                    ELSE "classify"]
    /\ UNCHANGED <<resolverVars, conf, before, swift, norm, fm, pipeline, prelim, lookup, jobs>>

\* web_results = parallel_web_research(...): the lookup ends with o, on the
\* bridge m, or the bridge's 30 s run out
BatchResearch(o, m, timeout) ==
    /\ batch.pc = "research"
    /\ m = "sync" => ~timeout
    /\ LET web == IF m = "sync" THEN run_with_new_loop(o)
                  ELSE IF timeout THEN [pc |-> "returned", geocoding |-> Absent]
                  ELSE run_in_thread(o)
       IN  IF web.pc = "raised"
           THEN RowFails
           ELSE batch' = [batch EXCEPT !.geocoding = web.geocoding,
                                       !.resolver = IF timeout THEN "timeout" ELSE o,
                                       !.pc = "classify"]
    /\ UNCHANGED <<resolverVars, conf, before, swift, norm, fm, pipeline, prelim, lookup, jobs>>

\* classify_with_gpt4 / classify_transaction returns or raises, and the row's
\* result is returned
BatchClassify(raises) ==
    /\ batch.pc = "classify"
    /\ IF raises
       THEN RowFails
       ELSE batch' = [batch EXCEPT
                         !.results = Append(@, [kind |-> "classified", bundle |-> batch.bundle,
                                                geocoding |-> batch.geocoding,
                                                resolver |-> batch.resolver]),
                         !.i = @ + 1, !.pc = "row",
                         !.bundle = NoBundle, !.geocoding = Unset, !.resolver = Unset]
    /\ UNCHANGED <<resolverVars, conf, before, swift, norm, fm, pipeline, prelim, lookup, jobs>>

\* df.apply has called the function for every row
BatchDone ==
    /\ batch.pc = "row"
    /\ batch.i >= Len(batch.rows)
    /\ batch' = [batch EXCEPT !.pc = "done"]
    /\ UNCHANGED <<resolverVars, conf, before, swift, norm, fm, pipeline, prelim, lookup, jobs>>

BatchNext ==
    \/ BatchPreliminary
    \/ \E o \in {Found, Absent, Raised}, m \in {"sync", "loop"}, timeout \in BOOLEAN :
          BatchResearch(o, m, timeout)
    \/ \E raises \in BOOLEAN : BatchClassify(raises)
    \/ BatchDone

\* the thread that runs df.apply keeps running: the research and the
\* classification of a row return or raise
SpecBatch == BatchInit /\ [][BatchNext]_vars /\ WF_vars(BatchNext)

\* the results are those of the rows analysed so far; a classified row of
\* analyzer.py carries the bundle run_preliminary_analysis computed for it,
\* unchanged, and an absent geocode signal if the resolver failed for it (no
\* result, an exception, the bridge's timeout)
C21_ResultsSoFar ==
    /\ Len(batch.results) = batch.i
    /\ batch.i <= Len(batch.rows)
    /\ batch.pc = "done" => batch.i = Len(batch.rows)
    /\ \A k \in 1..Len(batch.results) :
          LET r == batch.results[k]
          IN  (r.kind = "classified" /\ batch.module = "analyzer") =>
                 /\ r.bundle = preliminary_bundle(batch.rows[k])
                 /\ r.resolver \in {Absent, Raised, "timeout"} => r.geocoding = Absent
                 /\ r.resolver = Found => r.geocoding = Found

\* C21: every row of a batch gets a result and no row stops the batch: at
\* every moment each row analysed so far has its result, with the bundle as
\* computed and an absent geocode signal after a resolver failure, and the
\* batch reaches its end, where every row has a result, whatever failed or
\* raised on the way.
C21_EveryRowHasResult ==
    /\ []C21_ResultsSoFar
    /\ <>(batch.pc = "done" /\ Len(batch.results) = Len(batch.rows))

\* C21 witness: a finished batch of analyzer.py whose first row has dictionary
\* hits and a resolver that raised, and whose second row was classified.
C21_Witness ==
    /\ batch.pc = "done"
    /\ batch.module = "analyzer"
    /\ Len(batch.results) = MaxRows
    /\ batch.results[1].kind = "classified"
    /\ batch.results[1].resolver = Raised
    /\ batch.results[1].geocoding = Absent
    /\ batch.results[1].bundle.dict_hits # {}
    /\ batch.results[2].kind = "classified"

(***************************************************************************)
(* geocode_bank, call after call (specification SpecLookup).               *)
(***************************************************************************)
LookupInit ==
    /\ ResolverInit
    /\ conf = ConfIdle
    /\ before = NoBefore
    /\ swift = SwiftIdle
    /\ norm = NormIdle
    /\ fm = FuzzyIdle
    /\ pipeline = PipelineIdle
    /\ prelim = PrelimIdle
    /\ batch = BatchIdle
    /\ lookup \in LookupInputs
    /\ jobs = JobsIdle

\* the call returns or raises: the next call starts with its first attempt
LookupEnds(l, o) ==
    [l EXCEPT !.trace[l.i].outcome = o, !.i = @ + 1, !.attempt = 1,
              !.pc = IF l.i = NumLookups THEN "done" ELSE "call"]

\* tenacity after an exception of the attempt: wait and try again, or
\* RetryError after the last attempt
LookupAttemptRaised(l) ==
    IF l.attempt < StopAfterAttempt THEN [l EXCEPT !.pc = "backoff"]
    ELSE LookupEnds(l, Raised)

\* one attempt of geocode_bank up to the lru_cache wrapper
LookupAttempt ==
    /\ lookup.pc = "call"
    /\ LET call == lookup.calls[lookup.i]
           k == _normalize_cache_key(call.bank_name, call.swift_country_code)
           l == [lookup EXCEPT !.trace[lookup.i].attempts = @ + 1]
       IN  lookup' =
              IF k.raised THEN LookupAttemptRaised(l)
              ELSE IF k.norm_bank = <<>> THEN LookupEnds(l, Absent)
              ELSE LET c == [l EXCEPT !.trace[l.i].consulted = TRUE,
                                      !.trace[l.i].norm_bank = k.norm_bank,
                                      !.trace[l.i].norm_country = k.norm_country]
                   IN  IF <<k.norm_bank, k.norm_country>> \in lookup.entries
                       THEN LookupEnds([c EXCEPT !.trace[l.i].hit = TRUE], Found)
                       ELSE [c EXCEPT !.pc = "rate_limit"]
    /\ UNCHANGED <<resolverVars, conf, before, swift, norm, fm, pipeline, prelim, batch, jobs>>

\* wait_exponential(multiplier=1, min=2, max=10) has passed
LookupBackoff ==
    /\ lookup.pc = "backoff"
    /\ lookup' = [lookup EXCEPT !.pc = "call", !.attempt = @ + 1,
                                !.trace[lookup.i].backoffs = @ + 1]
    /\ UNCHANGED <<resolverVars, conf, before, swift, norm, fm, pipeline, prelim, batch, jobs>>

\* _geocode_bank_cached after a miss: rate_limit('geocode', min_interval=1.0)
LookupRateLimit ==
    /\ lookup.pc = "rate_limit"
    /\ lookup' = [lookup EXCEPT !.pc = "request", !.trace[lookup.i].rate_limited = TRUE]
    /\ UNCHANGED <<resolverVars, conf, before, swift, norm, fm, pipeline, prelim, batch, jobs>>

\* requests.get: a result, or a RequestException (None is returned, and
\* lru_cache keeps what is returned), or another exception, which leaves no
\* entry and reaches tenacity
LookupRequest(o) ==
    /\ lookup.pc = "request"
    /\ LET t == lookup.trace[lookup.i]
           l == [lookup EXCEPT !.trace[lookup.i].requests = @ + 1]
       IN  lookup' =
              IF o = Raised THEN LookupAttemptRaised(l)
              ELSE LookupEnds([l EXCEPT !.entries = @ \cup {<<t.norm_bank, t.norm_country>>}], o)
    /\ UNCHANGED <<resolverVars, conf, before, swift, norm, fm, pipeline, prelim, batch, jobs>>

LookupNext ==
    \/ LookupAttempt
    \/ LookupBackoff
    \/ LookupRateLimit
    \/ \E o \in {Found, Absent, Raised} : LookupRequest(o)

SpecLookup == LookupInit /\ [][LookupNext]_vars

\* the bank name after trimming and collapsing its whitespace
C23_TrimCollapse(bank_name) == strip(CollapseWhitespace(bank_name.chars))

\* the country code in upper case, an absent one as the empty string
C23_UpperCase(swift_country_code) ==
    IF swift_country_code.type = "str" THEN upper(swift_country_code.chars) ELSE <<>>

\* C23: two calls that consult the cache use the same cache entry exactly
\* when their bank names are equal after trimming and collapsing whitespace,
\* letter case preserved, and their country codes are equal after
\* upper-casing, an absent code counting as empty; the second call is a hit
\* only in that case, and is one whenever the first call left an entry.
C23_SameEntryIffSameNormalizedArguments ==
    lookup.pc = "done" =>
        LET a == lookup.trace[1]
            b == lookup.trace[2]
            same == /\ C23_TrimCollapse(lookup.calls[1].bank_name)
                        = C23_TrimCollapse(lookup.calls[2].bank_name)
                    /\ C23_UpperCase(lookup.calls[1].swift_country_code)
                        = C23_UpperCase(lookup.calls[2].swift_country_code)
        IN  (a.consulted /\ b.consulted) =>
               /\ (<<a.norm_bank, a.norm_country>> = <<b.norm_bank, b.norm_country>>) <=> same
               /\ b.hit => same
               /\ (same /\ a.outcome \in {Found, Absent}) => b.hit

\* C23 witness: the second call was a hit on the entry of the first although
\* its bank name is written with other whitespace and its country code in
\* the other case.
C23_Witness ==
    /\ lookup.pc = "done"
    /\ lookup.trace[2].hit
    /\ lookup.calls[1].bank_name # lookup.calls[2].bank_name
    /\ lookup.calls[1].swift_country_code # lookup.calls[2].swift_country_code

\* C27 as claimed: a call of geocode_bank whose bank name is missing, empty,
\* blank or NaN ends with an absent result on its first attempt: it raises
\* nothing, never waits for a retry, never takes the rate limiter and sends no
\* request.
C27_AbsentBankNameIsNotAnError ==
    \A k \in 1..NumLookups :
        LET bank_name == lookup.calls[k].bank_name
            t == lookup.trace[k]
        IN  (bank_name.type # "str" \/ split(bank_name.chars) = <<>>) =>
               /\ t.outcome \in {Pending, Absent}
               /\ t.attempts <= 1
               /\ t.backoffs = 0
               /\ ~t.rate_limited
               /\ t.requests = 0
               /\ ~(lookup.i = k /\ lookup.pc = "backoff")

\* the elements of a set in some order
RECURSIVE C25_AsList(_)
C25_AsList(S) ==
    IF S = {} THEN <<>>
    ELSE LET x == CHOOSE y \in S : TRUE IN <<x>> \o C25_AsList(S \ {x})

\* C25 as claimed: the confidence of a bundle is the confidence computed from
\* the bundle's own dict_hits, the distinct jurisdiction names: the +0.05
\* multi-hit bonus is in it exactly when more than one distinct name was hit,
\* and a name hit in several fields earns no bonus (analyzer.py).
C25_BonusIffSeveralDistinctHits ==
    prelim.done =>
        LET b == prelim.bundle
        IN  b.confidence =
               calculate_confidence(C25_AsList(b.dict_hits), b.swift_country_match,
                   b.matched_fields,
                   [i \in 1..Len(b.match_details) |-> b.match_details[i].similarity],
                   IF prelim.row.direction = "incoming" THEN FIELD_WEIGHTS_INCOMING
                   ELSE FIELD_WEIGHTS_OUTGOING)

\* C28: a bundle of run_preliminary_analysis has dictionary hits exactly when
\* it has matched fields and exactly when it has match details; its matched
\* fields are keys of the weight table of the row's direction; its scenario
\* is absent exactly when its confidence is 0, a dictionary hit gives a
\* confidence of at least 0.30 and a SWIFT match alone at least 0.20
\* (analyzer.py).
C28_BundleConsistent ==
    prelim.done =>
        LET b == prelim.bundle
        IN  /\ (b.dict_hits = {}) <=> (b.matched_fields = {})
            /\ (b.matched_fields = {}) <=> (b.match_details = <<>>)
            /\ b.matched_fields \subseteq Range(field_items(prelim.row.direction))
            /\ (b.scenario = NoScenario) <=> (b.confidence = 0)
            /\ b.dict_hits # {} => b.confidence >= (3 * One) \div 10
            /\ (b.dict_hits = {} /\ Truthy(b.swift_country_match)) =>
                  b.confidence >= (2 * One) \div 10
            /\ b.confidence \in 0..One

\* C28 witness: a bundle with dictionary hits in two fields of an outgoing
\* row and no SWIFT match, with scenario 2.
C28_Witness ==
    /\ prelim.done
    /\ prelim.row.direction = "outgoing"
    /\ Cardinality(prelim.bundle.matched_fields) = 2
    /\ prelim.bundle.dict_hits # {}
    /\ ~Truthy(prelim.bundle.swift_country_match)
    /\ prelim.bundle.scenario = 2

(***************************************************************************)
(* The resolver with its schedule (specification SpecLive): time passes,   *)
(* a thread that can run does run, a request is answered or times out, a   *)
(* thread that waits for _rate_limit_lock gets it.  New calls and the      *)
(* bridge's timeout may or may not happen.  All the callers look up the    *)
(* same bank.                                                              *)
(***************************************************************************)
LiveKeys == {1}

LiveNext ==
    \/ \E c \in Callers, k \in LiveKeys, m \in {"sync", "loop"} : Call(c, k, m)
    \/ \E c \in Callers : RateLimit(c)
    \/ \E c \in Callers : RateLimitWake(c)
    \/ \E c \in Callers, o \in {"ok", "request_exception", "exception"} : RequestDone(c, o)
    \/ \E c \in Callers : Retry(c)
    \/ \E c \in Callers : NewLoopReturn(c)
    \/ \E c \in Callers : FutureResult(c)
    \/ \E c \in Callers : FutureTimeout(c)
    \/ \E c \in Callers : ShutdownJoin(c)
    \/ Tick

LiveFairness ==
    /\ WF_vars(Tick)
    /\ \A c \in Callers :
          /\ SF_vars(RateLimit(c))
          /\ WF_vars(RateLimitWake(c))
          /\ WF_vars(\E o \in {"ok", "request_exception", "exception"} : RequestDone(c, o))
          /\ WF_vars(Retry(c))
          /\ WF_vars(NewLoopReturn(c))
          /\ WF_vars(FutureResult(c))
          /\ WF_vars(ShutdownJoin(c))

SpecLive == Init /\ [][LiveNext]_vars /\ LiveFairness

\* the steps of one lookup: from no lookup to a cache hit or to the wait for
\* the rate limiter, from there (after the sleep, if any) to the request, from
\* the request to its end or to the wait before the second attempt, which
\* consults the cache like the first; never more than 2 attempts
C24_StateMachine(c) ==
    /\ attempt'[c] <= StopAfterAttempt
    /\ wpc'[c] # wpc[c] =>
          \/ wpc[c] = "none" /\ wpc'[c] \in {"finished", "rl_lock"}
          \/ wpc[c] = "rl_lock" /\ wpc'[c] \in {"rl_sleep", "request"}
          \/ wpc[c] = "rl_sleep" /\ wpc'[c] = "request"
          \/ wpc[c] = "request" /\ wpc'[c] = "finished"
          \/ wpc[c] = "request" /\ wpc'[c] = "backoff" /\ attempt[c] < StopAfterAttempt
          \/ wpc[c] = "backoff" /\ wpc'[c] \in {"finished", "rl_lock"}
                                /\ attempt'[c] = attempt[c] + 1
          \/ wpc[c] = "finished" /\ wpc'[c] = "none"

\* C24: every lookup follows the per-lookup state machine with at most 2
\* attempts, and under the schedule of SpecLive every lookup that waits for
\* the rate limiter, for its request or for its retry reaches its end, and
\* every call of parallel_web_research returns.
C24_EveryLookupTerminates ==
    /\ [][\A c \in Callers : C24_StateMachine(c)]_vars
    /\ \A c \in Callers :
          /\ (wpc[c] \in {"rl_lock", "rl_sleep", "request", "backoff"})
                ~> (wpc[c] = "finished")
          /\ (cpc[c] \in {"wait", "join"}) ~> (cpc[c] = "returned")

\* C24 witness: a lookup has ended by the failure of its second attempt while
\* the other caller's lookup waits for the rate limiter's lock.
C24_Witness ==
    \E c, d \in Callers :
        /\ wpc[c] = "finished"
        /\ outcome[c] = Raised
        /\ attempt[c] = StopAfterAttempt
        /\ wpc[d] = "rl_lock"

\* C26 as claimed: no request is out for a key that has a cache entry, and
\* no two requests are out for the same key at once: callers that look up the
\* same uncached key at the same time send one request between them.
C26_OneRequestPerKey ==
    \A c \in Callers :
        wpc[c] = "request" =>
            /\ key[c] \notin CacheKeys(cache)
            /\ \A d \in Callers \ {c} : ~(wpc[d] = "request" /\ key[d] = key[c])

(***************************************************************************)
(* The web front ends (specification SpecJobs): uploads arrive when they   *)
(* arrive; the thread or background task of a started job keeps running.   *)
(***************************************************************************)
JobsInit ==
    /\ ResolverInit
    /\ conf = ConfIdle
    /\ before = NoBefore
    /\ swift = SwiftIdle
    /\ norm = NormIdle
    /\ fm = FuzzyIdle
    /\ pipeline = PipelineIdle
    /\ prelim = PrelimIdle
    /\ batch = BatchIdle
    /\ lookup = LookupIdle
    /\ jobs \in {[JobsIdle EXCEPT !.app = a] : a \in FrontEnds}

\* POST of two valid Excel files: both are saved, the incoming one first,
\* jobs[job_id] = {'status': 'processing'}, and the processing is started
UploadFiles(j, incoming_filename, outgoing_filename) ==
    /\ jobs.pc[j] = "none"
    /\ LET at == upload_paths(jobs.app, incoming_filename, outgoing_filename, jobs.used)
           saved == [jobs.files EXCEPT ![at.incoming_path] = Upload(j, "incoming")]
       IN  jobs' = [jobs EXCEPT
                       !.files = [saved EXCEPT ![at.outgoing_path] = Upload(j, "outgoing")],
                       !.used = at.used,
                       !.incoming_path[j] = at.incoming_path,
                       !.outgoing_path[j] = at.outgoing_path,
                       !.status[j] = "processing",
                       !.pc[j] = "parse_incoming"]
    /\ UNCHANGED <<resolverVars, conf, before, swift, norm, fm, pipeline, prelim, batch, lookup>>

\* POST whose second save raises: the incoming file is on disk, the request
\* ends with status 500, and no job is stored
UploadFails(incoming_filename, outgoing_filename) ==
    /\ jobs.failed_uploads < MaxFailedUploads
    /\ LET at == upload_paths(jobs.app, incoming_filename, outgoing_filename, jobs.used)
       IN  jobs' = [jobs EXCEPT
                       !.files[at.incoming_path] = Upload(0, "incoming"),
                       !.used = at.used,
                       !.failed_uploads = @ + 1]
    /\ UNCHANGED <<resolverVars, conf, before, swift, norm, fm, pipeline, prelim, batch, lookup>>

\* process_transactions: incoming_df = parse_excel(incoming_file_path, 'incoming')
ParseIncoming(j) ==
    /\ jobs.pc[j] = "parse_incoming"
    /\ LET found == jobs.files[jobs.incoming_path[j]]
       IN  jobs' = [jobs EXCEPT !.read[j][1] = found,
                                !.pc[j] = IF found = NoFile THEN "raised" ELSE "parse_outgoing"]
    /\ UNCHANGED <<resolverVars, conf, before, swift, norm, fm, pipeline, prelim, batch, lookup>>

\* process_transactions: outgoing_df = parse_excel(outgoing_file_path, 'outgoing')
ParseOutgoing(j) ==
    /\ jobs.pc[j] = "parse_outgoing"
    /\ LET found == jobs.files[jobs.outgoing_path[j]]
       IN  jobs' = [jobs EXCEPT !.read[j][2] = found,
                                !.pc[j] = IF found = NoFile THEN "raised" ELSE "analyse"]
    /\ UNCHANGED <<resolverVars, conf, before, swift, norm, fm, pipeline, prelim, batch, lookup>>

\* process_transactions returns: jobs[job_id] = {'status': 'completed', ...}
JobCompleted(j) ==
    /\ jobs.pc[j] = "analyse"
    /\ jobs' = [jobs EXCEPT !.status[j] = "completed", !.pc[j] = "finally"]
    /\ UNCHANGED <<resolverVars, conf, before, swift, norm, fm, pipeline, prelim, batch, lookup>>

\* process_transactions raises, while parsing or later: except Exception,
\* jobs[job_id] = {'status': 'failed', ...}
JobFailed(j) ==
    /\ jobs.pc[j] \in {"analyse", "raised"}
    /\ jobs' = [jobs EXCEPT !.status[j] = "failed", !.pc[j] = "finally"]
    /\ UNCHANGED <<resolverVars, conf, before, swift, norm, fm, pipeline, prelim, batch, lookup>>

\* finally: the two paths of the job are removed if they exist
Cleanup(j) ==
    /\ jobs.pc[j] = "finally"
    /\ jobs' = [jobs EXCEPT
                   !.files = cleanup_upload_files(jobs.files,
                                 {jobs.incoming_path[j], jobs.outgoing_path[j]}),
                   !.pc[j] = "done"]
    /\ UNCHANGED <<resolverVars, conf, before, swift, norm, fm, pipeline, prelim, batch, lookup>>

\* the steps of the thread (app.py) or background task (web_app.py) of job j
JobRuns(j) ==
    \/ ParseIncoming(j)
    \/ ParseOutgoing(j)
    \/ JobCompleted(j)
    \/ JobFailed(j)
    \/ Cleanup(j)

JobsNext ==
    \/ \E j \in JobIds, incoming_filename, outgoing_filename \in Filenames :
          UploadFiles(j, incoming_filename, outgoing_filename)
    \/ \E incoming_filename, outgoing_filename \in Filenames :
          UploadFails(incoming_filename, outgoing_filename)
    \/ \E j \in JobIds : JobRuns(j)

SpecJobs == JobsInit /\ [][JobsNext]_vars /\ \A j \in JobIds : WF_vars(JobRuns(j))

\* the status of job j changes only from none to 'processing' and from
\* 'processing' to 'completed' or 'failed'
C29_StatusStep(j) ==
    jobs'.status[j] # jobs.status[j] =>
        \/ jobs.status[j] = "none" /\ jobs'.status[j] = "processing"
        \/ jobs.status[j] = "processing" /\ jobs'.status[j] \in {"completed", "failed"}

\* the processing of job j is over and none of its uploads is on disk
C29_CleanedUp(j) ==
    /\ jobs.pc[j] = "done"
    /\ jobs.status[j] \in {"completed", "failed"}
    /\ \A p \in Paths : jobs.files[p].job # j

C30_InFlight(j) == jobs.pc[j] \in {"parse_incoming", "parse_outgoing", "analyse", "raised",
                                   "finally"}

\* C30 as claimed: in both front ends two jobs in flight at the same time
\* have no upload path in common, and what a job reads under its paths is
\* its own upload: never another upload's file, never a file that is gone.
C30_ConcurrentJobsIsolated ==
    /\ \A j, k \in JobIds :
          (j # k /\ C30_InFlight(j) /\ C30_InFlight(k)) =>
              {jobs.incoming_path[j], jobs.outgoing_path[j]}
                  \cap {jobs.incoming_path[k], jobs.outgoing_path[k]} = {}
    /\ \A j \in JobIds :
          \A n \in 1..2 : jobs.read[j][n] = Unread \/ jobs.read[j][n].job = j

====
